---- MODULE Spec2Model ----
(***************************************************************************)
(* Model of the SoftcoreCPU toolchain: the emulator's fetch-decode-execute *)
(* loop over its register file and RAM (Emulator/src), and the assembler's *)
(* per-mnemonic encoders (Assembler/src/encoder.rs) and two passes over a  *)
(* source file (Assembler/src/parser.rs, symbols.rs).                      *)
(***************************************************************************)
EXTENDS Integers, Sequences, FiniteSets, TLC

VARIABLES
    regs,    \* Registers struct: gp[0..7], pc, acc, ir, mar, flags
    mem,     \* main memory, a vector of 16-bit words
    status,  \* position of the emulator's main loop
    line,    \* the instruction line handed to the encoders: [m, args]
    bytes,   \* the encoder's result for that line
    source,  \* the lines of the assembly source file
    symbols, \* Symbols struct: labels, code_section, data_section
    address, \* parse_symbols: address of the next instruction or data word
    line_idx, \* index of the next line of the pass in progress
    out_file, \* the bytes held by the output file
    first_run \* what an earlier call of parse_symbols returned, if any

\* the state of the assembler's two passes
asm_vars == <<source, symbols, address, line_idx, out_file, first_run>>

vars == <<regs, mem, status, line, bytes, source, symbols, address, line_idx,
          out_file, first_run>>

(***************************************************************************)
(* Fixed-width integer arithmetic of the target language.                  *)
(***************************************************************************)
AsU16(x) == x % 65536

AsI16(x) == IF (x % 65536) >= 32768 THEN (x % 65536) - 65536 ELSE x % 65536

AsU8(x) == x % 256

RECURSIVE BitAnd(_, _)
BitAnd(a, b) ==
    IF a = 0 \/ b = 0 THEN 0
    ELSE (a % 2) * (b % 2) + 2 * BitAnd(a \div 2, b \div 2)

RECURSIVE BitOr(_, _)
BitOr(a, b) ==
    IF a = 0 THEN b
    ELSE IF b = 0 THEN a
    ELSE ((a % 2) + (b % 2) - (a % 2) * (b % 2)) + 2 * BitOr(a \div 2, b \div 2)

\* i16 & i16
AndI16(a, b) == AsI16(BitAnd(AsU16(a), AsU16(b)))

\* i16 | i16
OrI16(a, b) == AsI16(BitOr(AsU16(a), AsU16(b)))

\* !i16
NotI16(a) == AsI16(65535 - AsU16(a))

\* i16 << n: bits shifted out are lost
ShlI16(a, n) == AsI16(AsU16(a) * (2 ^ n))

\* i16 >> n: the shift of a signed integer fills with the sign bit
ShrI16(a, n) == a \div (2 ^ n)

\* Option values: None is the empty sequence, Some(v) the sequence of v
None == <<>>

Some(v) == <<v>>

\* i16::checked_add / checked_sub: None on overflow
checked_add(a, b) ==
    IF a + b > 32767 \/ a + b < -32768 THEN None ELSE Some(a + b)

checked_sub(a, b) ==
    IF a - b > 32767 \/ a - b < -32768 THEN None ELSE Some(a - b)

(***************************************************************************)
(* Emulator: registers.rs                                                  *)
(***************************************************************************)
REG_TOTAL_NUM == 8
MBR_PTR == 7
LNR_PTR == 6
SP_PTR == 5

\* enum Flags, used as bit positions of the flags byte
OV == 0
CA == 1
ZR == 2
NG == 3

RegistersNew ==
    [gp |-> [i \in 0..(REG_TOTAL_NUM - 1) |-> 0],
     pc |-> 0, acc |-> 0, ir |-> 0, mar |-> 0, flags |-> 0]

read_flag(r, flag) == (BitAnd(r.flags, 2 ^ flag) \div (2 ^ flag)) = 1

\* one (flag, bool) pair: set the bit with |=, clear it with &= !
change_flag(fl, f) ==
    IF f[2] THEN BitOr(fl, 2 ^ f[1])
    ELSE BitAnd(fl, 255 - (2 ^ f[1]))

RECURSIVE change_flags_from(_, _, _)
change_flags_from(fl, fs, i) ==
    IF i > Len(fs) THEN fl
    ELSE change_flags_from(change_flag(fl, fs[i]), fs, i + 1)

change_flags(r, fs) == [r EXCEPT !.flags = change_flags_from(r.flags, fs, 1)]

(***************************************************************************)
(* Emulator: instructions.rs                                               *)
(***************************************************************************)
MovIm == 0
MovRg == 1
Load == 2
LoadRg == 3
Store == 4
StrRg == 5
Push == 6
Pop == 7
AddIm == 8
AddRg == 9
SubIm == 10
SubRg == 11
ShftL == 12
ShftR == 13
And == 14
Or == 15
Not == 16
Jmp == 17
Bln == 18
Ret == 19
CmpIm == 20
CmpRg == 21
Beq == 22
Bne == 23
Bgt == 24
Bgtu == 25
Blt == 26
Bltu == 27
Halt == 28

\* FromPrimitive::from_u8 for enum Opcode
from_u8(opcode) == IF opcode \in 0..Halt THEN Some(opcode) ELSE None

OPCODE_SIZE == 5
REG_ADDR_SIZE == 3
REG_POS0_ROFFSET == OPCODE_SIZE
REG_POS1_ROFFSET == REG_POS0_ROFFSET + REG_ADDR_SIZE
REG_POS2_ROFFSET == REG_POS1_ROFFSET + REG_ADDR_SIZE
MEM_OFFSET_SIZE == 5
MEM_OFFSET_ROFFSET == REG_POS2_ROFFSET
MEM_LABEL_SIZE == 11
MEM_LABEL_ROFFSET == OPCODE_SIZE
PUSHPOP_NUM_SIZE == 2
PUSHPOP_NUM_ROFFSET == REG_POS2_ROFFSET + REG_ADDR_SIZE
B8_CONSTANT_SIZE == 8
B8_CONSTANT_ROFFSET == REG_POS0_ROFFSET + REG_ADDR_SIZE
B5_CONSTANT_SIZE == 5
B5_CONSTANT_ROFFSET == REG_POS1_ROFFSET + REG_ADDR_SIZE
B4_CONSTANT_SIZE == 4
B4_CONSTANT_ROFFSET == REG_POS1_ROFFSET + REG_ADDR_SIZE

\* the mask loop of extract_bits: size one-bits.  mask <<= 1 leaves the low
\* bit 0, so mask |= 1 adds 1
RECURSIVE ones_mask(_)
ones_mask(size) == IF size <= 1 THEN 1 ELSE 2 * ones_mask(size - 1) + 1

extract_bits(num, size, right_offset) ==
    LET left_offset == 16 - right_offset - size
        mask == AsU16(ones_mask(size) * (2 ^ left_offset))
    IN BitAnd(num, mask) \div (2 ^ left_offset)


\* an index conversion that wraps around the 350 words of RAM instead of
\* sign extending
AsUsize_modulo_ram(x) == x % 350

\* vector indexing with an i16 converted to usize: a negative value sign
\* extends to an index of at least 2^64 - 2^15.  The model checker's
\* integers are narrower, so 2^30 stands for 2^64; every such index lies
\* beyond any vector.
AsUsize(x) == IF x < 0 THEN x + (2 ^ 30) ELSE x

\* outcome of an instruction that indexes memory: a failed bounds check
\* panics
Res(r, m) == [regs |-> r, mem |-> m, fault |-> FALSE]

Fault(r, m) == [regs |-> r, mem |-> m, fault |-> TRUE]

\* Moves an immediate constant value into a destination register
mov_im(r) ==
    LET reg_dst == extract_bits(r.ir, REG_ADDR_SIZE, REG_POS0_ROFFSET)
        val == extract_bits(r.ir, B8_CONSTANT_SIZE, B8_CONSTANT_ROFFSET)
    IN [r EXCEPT !.gp[reg_dst] = AsI16(val)]

\* a register move that records in ZR whether the value moved is zero
mov_rg_setting_zero_flag(r) ==
    LET reg_dst == extract_bits(r.ir, REG_ADDR_SIZE, REG_POS0_ROFFSET)
        reg_src == extract_bits(r.ir, REG_ADDR_SIZE, REG_POS1_ROFFSET)
        r1 == [r EXCEPT !.gp[reg_dst] = r.gp[reg_src]]
    IN change_flags(r1, <<(<<ZR, r.gp[reg_src] = 0>>)>>)

\* Moves the value of a source register into destination register
mov_rg(r) ==
    LET reg_dst == extract_bits(r.ir, REG_ADDR_SIZE, REG_POS0_ROFFSET)
        reg_src == extract_bits(r.ir, REG_ADDR_SIZE, REG_POS1_ROFFSET)
    IN [r EXCEPT !.gp[reg_dst] = r.gp[reg_src]]

\* Loads contents from memory at address label into Memory Buffer Register
load(r, m) ==
    LET label == extract_bits(r.ir, MEM_LABEL_SIZE, MEM_LABEL_ROFFSET)
    IN IF label \notin DOMAIN m THEN Fault(r, m)
       ELSE Res([r EXCEPT !.gp[MBR_PTR] = AsI16(m[label])], m)

\* Loads contents of memory at address specified by reg_adr
load_rg(r, m) ==
    LET reg_dst == extract_bits(r.ir, REG_ADDR_SIZE, REG_POS0_ROFFSET)
        reg_adr == extract_bits(r.ir, REG_ADDR_SIZE, REG_POS1_ROFFSET)
        ofst == extract_bits(r.ir, MEM_OFFSET_SIZE, MEM_OFFSET_ROFFSET)
    IN IF (reg_adr + ofst) \notin DOMAIN m THEN Fault(r, m)
       ELSE Res([r EXCEPT !.gp[reg_dst] = AsI16(m[reg_adr + ofst])], m)

\* Stores contents from Memory Buffer Register into memory at address label
store(r, m) ==
    LET label == extract_bits(r.ir, MEM_LABEL_SIZE, MEM_LABEL_ROFFSET)
    IN IF label \notin DOMAIN m THEN Fault(r, m)
       ELSE Res(r, [m EXCEPT ![label] = AsU16(r.gp[MBR_PTR])])

\* Stores contents from Source Register into memory at address
\* specified by reg_adr
store_rg(r, m) ==
    LET reg_src == extract_bits(r.ir, REG_ADDR_SIZE, REG_POS0_ROFFSET)
        reg_adr == extract_bits(r.ir, REG_ADDR_SIZE, REG_POS1_ROFFSET)
        ofst == extract_bits(r.ir, MEM_OFFSET_SIZE, MEM_OFFSET_ROFFSET)
    IN IF (reg_adr + ofst) \notin DOMAIN m THEN Fault(r, m)
       ELSE Res(r, [m EXCEPT ![reg_adr + ofst] = AsU16(r.gp[reg_src])])

\* the body of push's loop, iterations i .. num-1.  sp -= 1 at i16::MIN
\* either panics (overflow checks on) or wraps to 32767, which is out of
\* bounds: both abort.
RECURSIVE push_from(_, _, _, _)
push_from(r, m, i, num) ==
    IF i >= num THEN Res(r, m)
    ELSE LET addr == extract_bits(r.ir, REG_ADDR_SIZE,
                                  REG_POS0_ROFFSET + (REG_ADDR_SIZE * i))
             r1 == [r EXCEPT !.gp[SP_PTR] = AsI16(r.gp[SP_PTR] - 1)]
             top == AsUsize(r1.gp[SP_PTR])
         IN IF top \notin DOMAIN m THEN Fault(r1, m)
            ELSE push_from(r1, [m EXCEPT ![top] = AsU16(r1.gp[addr])],
                           i + 1, num)

\* Push up to three different registers onto the stack
push(r, m) ==
    LET num == extract_bits(r.ir, PUSHPOP_NUM_SIZE, PUSHPOP_NUM_ROFFSET)
    IN push_from(r, m, 0, num)

\* the body of pop's loop, iterations i .. num-1
RECURSIVE pop_from(_, _, _, _)
pop_from(r, m, i, num) ==
    IF i >= num THEN Res(r, m)
    ELSE LET addr == extract_bits(r.ir, REG_ADDR_SIZE,
                                  REG_POS0_ROFFSET + (REG_ADDR_SIZE * i))
             top == AsUsize(r.gp[SP_PTR])
         IN IF top \notin DOMAIN m THEN Fault(r, m)
            ELSE LET r1 == [r EXCEPT !.gp[addr] = AsI16(m[top])]
                     r2 == [r1 EXCEPT !.gp[SP_PTR] = AsI16(r1.gp[SP_PTR] + 1)]
                 IN pop_from(r2, m, i + 1, num)

\* Pop up to three different registers from the stack and into the registers
pop(r, m) ==
    LET num == extract_bits(r.ir, PUSHPOP_NUM_SIZE, PUSHPOP_NUM_ROFFSET)
    IN pop_from(r, m, 0, num)

\* the flag updates shared by the Some(v) arm of add_im and add_rg
add_flags(r, v) ==
    LET r1 == change_flags(r, <<(<<OV, FALSE>>), (<<CA, FALSE>>)>>)
    IN IF v = 0 THEN change_flags(r1, <<(<<ZR, TRUE>>), (<<NG, FALSE>>)>>)
       ELSE IF v < 0 THEN change_flags(r1, <<(<<ZR, FALSE>>), (<<NG, TRUE>>)>>)
       ELSE r1

\* Adds an immediate constant to reg_A and stores the result in reg_dst
add_im(r) ==
    LET reg_dst == extract_bits(r.ir, REG_ADDR_SIZE, REG_POS0_ROFFSET)
        reg_a == extract_bits(r.ir, REG_ADDR_SIZE, REG_POS1_ROFFSET)
        val == extract_bits(r.ir, B5_CONSTANT_SIZE, B5_CONSTANT_ROFFSET)
        v == checked_add(r.gp[reg_a], AsI16(val))
    IN IF v # None THEN add_flags([r EXCEPT !.gp[reg_dst] = v[1]], v[1])
       ELSE change_flags(r, <<(<<OV, TRUE>>), (<<CA, TRUE>>)>>)

\* an addition of registers that wraps on overflow and stores the wrapped
\* sum
add_rg_wrapping(r) ==
    LET reg_dst == extract_bits(r.ir, REG_ADDR_SIZE, REG_POS0_ROFFSET)
        reg_a == extract_bits(r.ir, REG_ADDR_SIZE, REG_POS1_ROFFSET)
        reg_b == extract_bits(r.ir, REG_ADDR_SIZE, REG_POS2_ROFFSET)
        v == checked_add(r.gp[reg_a], r.gp[reg_b])
    IN IF v # None THEN add_flags([r EXCEPT !.gp[reg_dst] = v[1]], v[1])
       ELSE change_flags(
                [r EXCEPT !.gp[reg_dst] = AsI16(r.gp[reg_a] + r.gp[reg_b])],
                <<(<<OV, TRUE>>), (<<CA, TRUE>>)>>)

\* Adds the contents of reg_A and reg_B and stores the result in reg_dst
add_rg(r) ==
    LET reg_dst == extract_bits(r.ir, REG_ADDR_SIZE, REG_POS0_ROFFSET)
        reg_a == extract_bits(r.ir, REG_ADDR_SIZE, REG_POS1_ROFFSET)
        reg_b == extract_bits(r.ir, REG_ADDR_SIZE, REG_POS2_ROFFSET)
        v == checked_add(r.gp[reg_a], r.gp[reg_b])
    IN IF v # None THEN add_flags([r EXCEPT !.gp[reg_dst] = v[1]], v[1])
       ELSE change_flags(r, <<(<<OV, TRUE>>), (<<CA, TRUE>>)>>)

\* the flag updates of a subtraction that, like add, leaves the flags alone
\* on a positive result
sub_flags_as_add(r, v) ==
    LET r1 == change_flags(r, <<(<<OV, FALSE>>)>>)
    IN IF v = 0
       THEN change_flags(r1, <<(<<CA, TRUE>>), (<<ZR, TRUE>>), (<<NG, FALSE>>)>>)
       ELSE IF v > 0
       THEN r1
       ELSE change_flags(r1, <<(<<CA, FALSE>>), (<<ZR, FALSE>>), (<<NG, TRUE>>)>>)

\* the flag updates of the Some(v) arm of sub_im and sub_rg
sub_flags(r, v) ==
    LET r1 == change_flags(r, <<(<<OV, FALSE>>)>>)
    IN IF v = 0
       THEN change_flags(r1, <<(<<CA, TRUE>>), (<<ZR, TRUE>>), (<<NG, FALSE>>)>>)
       ELSE IF v > 0
       THEN change_flags(r1, <<(<<CA, TRUE>>), (<<ZR, FALSE>>), (<<NG, FALSE>>)>>)
       ELSE change_flags(r1, <<(<<CA, FALSE>>), (<<ZR, FALSE>>), (<<NG, TRUE>>)>>)

\* Subtracts an immediate constant to reg_A and stores the result in reg_dst
sub_im(r) ==
    LET reg_dst == extract_bits(r.ir, REG_ADDR_SIZE, REG_POS0_ROFFSET)
        reg_a == extract_bits(r.ir, REG_ADDR_SIZE, REG_POS1_ROFFSET)
        val == extract_bits(r.ir, B5_CONSTANT_SIZE, B5_CONSTANT_ROFFSET)
        v == checked_sub(r.gp[reg_a], AsI16(val))
    IN IF v # None THEN sub_flags([r EXCEPT !.gp[reg_dst] = v[1]], v[1])
       ELSE change_flags(r, <<(<<OV, TRUE>>)>>)

\* Subtracts the contents of reg_A and reg_B and stores the result in reg_dst
sub_rg(r) ==
    LET reg_dst == extract_bits(r.ir, REG_ADDR_SIZE, REG_POS0_ROFFSET)
        reg_a == extract_bits(r.ir, REG_ADDR_SIZE, REG_POS1_ROFFSET)
        reg_b == extract_bits(r.ir, REG_ADDR_SIZE, REG_POS2_ROFFSET)
        v == checked_sub(r.gp[reg_a], r.gp[reg_b])
    IN IF v # None THEN sub_flags([r EXCEPT !.gp[reg_dst] = v[1]], v[1])
       ELSE change_flags(r, <<(<<OV, TRUE>>)>>)

\* the flag updates that end shift_l, shift_r, and, or, not
logic_flags(r, reg_dst) ==
    LET r1 == IF r.gp[reg_dst] = 0
              THEN change_flags(r, <<(<<ZR, TRUE>>), (<<NG, FALSE>>)>>)
              ELSE IF r.gp[reg_dst] < 0
              THEN change_flags(r, <<(<<ZR, FALSE>>), (<<NG, TRUE>>)>>)
              ELSE r
    IN change_flags(r1, <<(<<OV, FALSE>>), (<<CA, FALSE>>)>>)

\* Shifts constant bits left from reg_src and stores result in reg_dst
shift_l(r) ==
    LET reg_dst == extract_bits(r.ir, REG_ADDR_SIZE, REG_POS0_ROFFSET)
        reg_src == extract_bits(r.ir, REG_ADDR_SIZE, REG_POS1_ROFFSET)
        val == extract_bits(r.ir, B4_CONSTANT_SIZE, B4_CONSTANT_ROFFSET)
    IN logic_flags([r EXCEPT !.gp[reg_dst] = ShlI16(r.gp[reg_src], val)],
                   reg_dst)

\* Shifts constant bits right from reg_src and stores result in reg_dst
shift_r(r) ==
    LET reg_dst == extract_bits(r.ir, REG_ADDR_SIZE, REG_POS0_ROFFSET)
        reg_src == extract_bits(r.ir, REG_ADDR_SIZE, REG_POS1_ROFFSET)
        val == extract_bits(r.ir, B4_CONSTANT_SIZE, B4_CONSTANT_ROFFSET)
    IN logic_flags([r EXCEPT !.gp[reg_dst] = ShrI16(r.gp[reg_src], val)],
                   reg_dst)

\* Bitwise ANDs reg_A and reg_B and stores the result in reg_dst
and(r) ==
    LET reg_dst == extract_bits(r.ir, REG_ADDR_SIZE, REG_POS0_ROFFSET)
        reg_a == extract_bits(r.ir, REG_ADDR_SIZE, REG_POS1_ROFFSET)
        reg_b == extract_bits(r.ir, REG_ADDR_SIZE, REG_POS2_ROFFSET)
    IN logic_flags([r EXCEPT !.gp[reg_dst] = AndI16(r.gp[reg_a], r.gp[reg_b])],
                   reg_dst)

\* Bitwise ORs reg_A and reg_B and stores the result in reg_dst
or(r) ==
    LET reg_dst == extract_bits(r.ir, REG_ADDR_SIZE, REG_POS0_ROFFSET)
        reg_a == extract_bits(r.ir, REG_ADDR_SIZE, REG_POS1_ROFFSET)
        reg_b == extract_bits(r.ir, REG_ADDR_SIZE, REG_POS2_ROFFSET)
    IN logic_flags([r EXCEPT !.gp[reg_dst] = OrI16(r.gp[reg_a], r.gp[reg_b])],
                   reg_dst)

\* Bitwise inverts reg_src and stores the result in reg_dst
not(r) ==
    LET reg_dst == extract_bits(r.ir, REG_ADDR_SIZE, REG_POS0_ROFFSET)
        reg_src == extract_bits(r.ir, REG_ADDR_SIZE, REG_POS1_ROFFSET)
    IN logic_flags([r EXCEPT !.gp[reg_dst] = NotI16(r.gp[reg_src])], reg_dst)

\* a jump that goes on to the next instruction
jmp_to_successor(r) == [r EXCEPT !.pc = AsU16(r.pc + 1)]

\* Branch to address in label
jmp(r) ==
    LET label == extract_bits(r.ir, MEM_LABEL_SIZE, MEM_LABEL_ROFFSET)
    IN [r EXCEPT !.pc = AsU16(label)]

\* a call that links to the instruction after it, as a conventional call
\* does
bln_linking_successor(r) ==
    LET label == extract_bits(r.ir, MEM_LABEL_SIZE, MEM_LABEL_ROFFSET)
    IN [r EXCEPT !.gp[LNR_PTR] = AsI16(r.pc + 1), !.pc = AsU16(label)]

\* Branch with link: the link register receives the current pc
bln(r) ==
    LET label == extract_bits(r.ir, MEM_LABEL_SIZE, MEM_LABEL_ROFFSET)
    IN [r EXCEPT !.gp[LNR_PTR] = AsI16(r.pc), !.pc = AsU16(label)]

\* Return from branch with link
ret(r) == [r EXCEPT !.pc = AsU16(r.gp[LNR_PTR])]

\* Compare immediate
cmp_im(r) ==
    LET reg_a == extract_bits(r.ir, REG_ADDR_SIZE, REG_POS0_ROFFSET)
        val == extract_bits(r.ir, B8_CONSTANT_SIZE, B8_CONSTANT_ROFFSET)
        v == checked_sub(r.gp[reg_a], AsI16(val))
    IN IF v # None
       THEN LET r1 == change_flags(r, <<(<<OV, FALSE>>)>>)
            IN IF v[1] = 0
               THEN change_flags(r1, <<(<<CA, TRUE>>), (<<ZR, TRUE>>),
                                       (<<NG, FALSE>>)>>)
               ELSE IF v[1] > 0
               THEN change_flags(r1, <<(<<CA, TRUE>>), (<<ZR, FALSE>>),
                                       (<<NG, FALSE>>)>>)
               ELSE change_flags(r1, <<(<<CA, FALSE>>), (<<ZR, FALSE>>),
                                       (<<NG, TRUE>>)>>)
       ELSE change_flags(r, <<(<<OV, TRUE>>)>>)

\* a comparison of registers that never touches the carry flag
cmp_rg_without_carry(r) ==
    LET reg_a == extract_bits(r.ir, REG_ADDR_SIZE, REG_POS0_ROFFSET)
        reg_b == extract_bits(r.ir, REG_ADDR_SIZE, REG_POS1_ROFFSET)
        v == checked_sub(r.gp[reg_a], r.gp[reg_b])
    IN IF v # None
       THEN LET r1 == change_flags(r, <<(<<OV, FALSE>>)>>)
            IN IF v[1] = 0
               THEN change_flags(r1, <<(<<ZR, TRUE>>), (<<NG, FALSE>>)>>)
               ELSE IF v[1] > 0
               THEN change_flags(r1, <<(<<ZR, FALSE>>), (<<NG, FALSE>>)>>)
               ELSE change_flags(r1, <<(<<ZR, FALSE>>), (<<NG, TRUE>>)>>)
       ELSE change_flags(r, <<(<<OV, TRUE>>)>>)

\* Compare with registers
cmp_rg(r) ==
    LET reg_a == extract_bits(r.ir, REG_ADDR_SIZE, REG_POS0_ROFFSET)
        reg_b == extract_bits(r.ir, REG_ADDR_SIZE, REG_POS1_ROFFSET)
        v == checked_sub(r.gp[reg_a], r.gp[reg_b])
    IN IF v # None
       THEN LET r1 == change_flags(r, <<(<<OV, FALSE>>)>>)
            IN IF v[1] = 0
               THEN change_flags(r1, <<(<<CA, TRUE>>), (<<ZR, TRUE>>),
                                       (<<NG, FALSE>>)>>)
               ELSE IF v[1] > 0
               THEN change_flags(r1, <<(<<CA, TRUE>>), (<<ZR, FALSE>>),
                                       (<<NG, FALSE>>)>>)
               ELSE change_flags(r1, <<(<<CA, FALSE>>), (<<ZR, FALSE>>),
                                       (<<NG, TRUE>>)>>)
       ELSE change_flags(r, <<(<<OV, TRUE>>)>>)

branch_on_condition(cond, r) ==
    IF cond
    THEN LET label == extract_bits(r.ir, MEM_LABEL_SIZE, MEM_LABEL_ROFFSET)
         IN [r EXCEPT !.pc = AsU16(label)]
    ELSE r

\* Branch if equal
beq(r) == branch_on_condition(read_flag(r, ZR), r)

\* Branch if not equal
bne(r) == branch_on_condition(~read_flag(r, ZR), r)

\* Branch if greater than (signed)
bgt(r) == branch_on_condition(read_flag(r, NG) = read_flag(r, OV), r)

\* an unsigned greater-than that tests the carry alone
bgtu_carry_only(r) == branch_on_condition(read_flag(r, CA), r)

\* Branch if greater than (unsigned)
bgtu(r) == branch_on_condition(read_flag(r, CA) /\ ~read_flag(r, ZR), r)

\* Branch if less than (signed)
blt(r) == branch_on_condition(read_flag(r, NG) # read_flag(r, OV), r)

\* Branch if less than (unsigned)
bltu(r) == branch_on_condition(~read_flag(r, CA), r)


(***************************************************************************)
(* Assembler: symbols.rs and encoder.rs.  Source text is modelled as       *)
(* sequences of one-character strings.                                     *)
(***************************************************************************)
SymbolsNew ==
    [labels |-> <<>>, code_section |-> <<None, None>>,
     data_section |-> <<None, None>>]

\* str::starts_with
starts_with(s, p) == Len(s) >= Len(p) /\ SubSeq(s, 1, Len(p)) = p

\* Result values of the encoder functions: Ok(val) or Err(LineError)
Ok(v) == [ok |-> TRUE, val |-> v, kind |-> "", op |-> "", tok |-> <<>>,
          line |-> 0]

Err(k, o, t, n) == [ok |-> FALSE, val |-> <<>>, kind |-> k, op |-> o, tok |-> t,
                    line |-> n]

DigitVal ==
    ("0" :> 0) @@ ("1" :> 1) @@ ("2" :> 2) @@ ("3" :> 3) @@ ("4" :> 4) @@
    ("5" :> 5) @@ ("6" :> 6) @@ ("7" :> 7) @@ ("8" :> 8) @@ ("9" :> 9)

RECURSIVE digits_value(_, _)
digits_value(s, acc) ==
    IF s = <<>> THEN acc
    ELSE digits_value(Tail(s), 10 * acc + DigitVal[Head(s)])

\* str::parse for a signed integer type with range lo..hi: an optional sign,
\* then one or more decimal digits; None stands for Err
parse_int(s, lo, hi) ==
    LET signed == s # <<>> /\ Head(s) \in {"+", "-"}
        body == IF signed THEN Tail(s) ELSE s
    IN IF body = <<>> \/ \E i \in 1..Len(body) : body[i] \notin DOMAIN DigitVal
       THEN None
       ELSE LET v == IF signed /\ Head(s) = "-" THEN 0 - digits_value(body, 0)
                     ELSE digits_value(body, 0)
            IN IF v < lo \/ v > hi THEN None ELSE Some(v)

UNUSED == 0
BYTE == 8

\* constructors of enum InstructionType
T1(op, r, c) == [t |-> "T1", f |-> <<op, r, c>>]

T2(op, rp0, rp1, f1) == [t |-> "T2", f |-> <<op, rp0, rp1, f1>>]

T3(op, f2) == [t |-> "T3", f |-> <<op, f2>>]

\* a T4 whose two source registers change places
T4_operands_swapped(op, rp0, rp1, rp2) == [t |-> "T4", f |-> <<op, rp0, rp2, rp1>>]

T4(op, rp0, rp1, rp2) == [t |-> "T4", f |-> <<op, rp0, rp1, rp2>>]

T5(op, rp0, rp1, c) == [t |-> "T5", f |-> <<op, rp0, rp1, c>>]

\* u16 << n and >> n
ShlU16(x, n) == AsU16(x * (2 ^ n))

ShrU16(x, n) == x \div (2 ^ n)

\* Encodes the passed in values by their InstructionType
encode(instr) ==
    LET opcode_shift == 11
        reg_pos0_shift == 8
        reg_pos1_shift == 5
        f == instr.f
        msb == AsU8(ShrU16(BitOr(ShlU16(f[1], opcode_shift),
                                 ShlU16(f[2], reg_pos0_shift)), BYTE))
    IN CASE instr.t = "T1" -> <<msb, f[3]>>
         [] instr.t = "T2" ->
              <<msb, AsU8(BitOr(ShlU16(f[3], reg_pos1_shift), f[4]))>>
         [] instr.t = "T3" ->
              LET instr16bit == BitOr(ShlU16(f[1], opcode_shift), f[2])
              IN <<AsU8(ShrU16(instr16bit, 8)), AsU8(instr16bit)>>
         [] instr.t = "T4" ->
              LET reg_pos2_shift == 2
              IN <<msb, AsU8(BitOr(ShlU16(f[3], reg_pos1_shift),
                                   ShlU16(f[4], reg_pos2_shift)))>>
         [] instr.t = "T5" ->
              LET imm_shift == 1
              IN <<msb, AsU8(BitOr(ShlU16(f[3], reg_pos1_shift),
                                   ShlU16(f[4], imm_shift)))>>

\* Look-up table for existing Registers and their addresses
REGISTERS ==
    (<<"r", "0">> :> 0) @@
    (<<"r", "1">> :> 1) @@
    (<<"r", "2">> :> 2) @@
    (<<"r", "3">> :> 3) @@
    (<<"r", "4">> :> 4) @@
    (<<"r", "5">> :> 5) @@
    (<<"r", "6">> :> 6) @@
    (<<"r", "7">> :> 7) @@
    (<<"f", "p">> :> 4) @@
    (<<"s", "p">> :> 5) @@
    (<<"l", "r">> :> 6) @@
    (<<"m", "b", "r">> :> 7)

\* a variant of get_valid_reg that takes an unknown name for r0
get_valid_reg_defaulting(r, line_num) ==
    IF r \in DOMAIN REGISTERS THEN Ok(REGISTERS[r]) ELSE Ok(0)

\* Check if a given string matches the name of a valid register
get_valid_reg(r, line_num) ==
    IF r \in DOMAIN REGISTERS THEN Ok(REGISTERS[r])
    ELSE Err("Unrecognized", "", r, line_num)

\* Check if a given string can be converted to a valid integer
get_valid_imm(c, line_num) ==
    IF starts_with(c, <<"#">>)
    THEN LET imm == parse_int(Tail(c), -128, 127)
         IN IF imm = None THEN Err("Unrecognized", "", c, line_num)
            ELSE Ok(AsU8(imm[1]))
    ELSE Err("StartWithHash", "", <<>>, line_num)

\* Check if a given label exists as valid in symbol table
get_valid_label(label, syms, line_num) ==
    IF label \in DOMAIN syms.labels THEN Ok(syms.labels[label])
    ELSE Err("Unrecognized", "", label, line_num)

\* f is the outcome of the length test
check_args_len(f, op, line_num) ==
    IF ~f THEN Err("WrongArgs", op, <<>>, line_num) ELSE Ok(0)

\* a mov whose register variant puts the source in the destination field
mov_source_first(args, syms, line_num) ==
    LET len == check_args_len(Len(args) = 2, "mov", line_num)
    IN IF ~len.ok THEN len
       ELSE LET reg_dst == get_valid_reg(args[1], line_num)
            IN IF ~reg_dst.ok THEN reg_dst
               ELSE IF starts_with(args[2], <<"#">>)
               THEN LET constant == get_valid_imm(args[2], line_num)
                    IN IF ~constant.ok THEN constant
                       ELSE Ok(encode(T1(0, reg_dst.val, constant.val)))
               ELSE IF args[2] \in DOMAIN REGISTERS
               THEN Ok(encode(T2(1, REGISTERS[args[2]], reg_dst.val, UNUSED)))
               ELSE Err("Unrecognized", "", args[2], line_num)

\* MOV: Immediate variant is of T1 and Register variant is of T2
mov(args, syms, line_num) ==
    LET len == check_args_len(Len(args) = 2, "mov", line_num)
    IN IF ~len.ok THEN len
       ELSE LET reg_dst == get_valid_reg(args[1], line_num)
            IN IF ~reg_dst.ok THEN reg_dst
               ELSE IF starts_with(args[2], <<"#">>)
               THEN LET constant == get_valid_imm(args[2], line_num)
                    IN IF ~constant.ok THEN constant
                       ELSE Ok(encode(T1(0, reg_dst.val, constant.val)))
               ELSE IF args[2] \in DOMAIN REGISTERS
               THEN Ok(encode(T2(1, reg_dst.val, REGISTERS[args[2]], UNUSED)))
               ELSE Err("Unrecognized", "", args[2], line_num)

\* the T3 encoders with one label argument: lda, stra, jmp, bln, beq, bne,
\* bgt, bgtu, blt, bltu share this body
label_instr(name, opcode, args, syms, line_num) ==
    LET len == check_args_len(Len(args) = 1, name, line_num)
    IN IF ~len.ok THEN len
       ELSE LET label == get_valid_label(args[1], syms, line_num)
            IN IF ~label.ok THEN label
               ELSE Ok(encode(T3(opcode, label.val)))

\* LDA: Instruction belongs to T3, opcode 0x02
lda(args, syms, line_num) == label_instr("lda", 2, args, syms, line_num)

\* STRA: Instruction belongs to T3, opcode 0x04
stra(args, syms, line_num) == label_instr("stra", 4, args, syms, line_num)

\* JMP: Instruction belongs to T3, opcode 0x11
jmp_enc(args, syms, line_num) == label_instr("jmp", 17, args, syms, line_num)

\* BLN: Instruction belongs to T3, opcode 0x12
bln_enc(args, syms, line_num) == label_instr("bln", 18, args, syms, line_num)

\* BEQ: Instruction belongs to T3, opcode 0x16
beq_enc(args, syms, line_num) == label_instr("beq", 22, args, syms, line_num)

\* BNE: Instruction belongs to T3, opcode 0x17
bne_enc(args, syms, line_num) == label_instr("bne", 23, args, syms, line_num)

\* BGT: Instruction belongs to T3, opcode 0x18
bgt_enc(args, syms, line_num) == label_instr("bgt", 24, args, syms, line_num)

\* BGTU: Instruction belongs to T3, opcode 0x19
bgtu_enc(args, syms, line_num) == label_instr("bgtu", 25, args, syms, line_num)

\* BLT: Instruction belongs to T3, opcode 0x1A
blt_enc(args, syms, line_num) == label_instr("blt", 26, args, syms, line_num)

\* BLTU: Instruction belongs to T3, opcode 0x1B
bltu_enc(args, syms, line_num) == label_instr("bltu", 27, args, syms, line_num)

\* LDR: Instruction belongs to T2 where f1 is type Offset
ldr(args, syms, line_num) ==
    LET len == check_args_len(Len(args) = 2 \/ Len(args) = 3, "ldr", line_num)
    IN IF ~len.ok THEN len
       ELSE LET reg_dst == get_valid_reg(args[1], line_num)
            IN IF ~reg_dst.ok THEN reg_dst
               ELSE IF starts_with(args[2], <<"&">>)
               THEN LET reg_adr == get_valid_reg(Tail(args[2]), line_num)
                        offset == IF Len(args) = 3
                                  THEN get_valid_imm(args[3], line_num)
                                  ELSE Ok(0)
                    IN IF ~reg_adr.ok THEN reg_adr
                       ELSE IF ~offset.ok THEN offset
                       ELSE Ok(encode(T2(3, reg_dst.val, reg_adr.val,
                                         offset.val)))
               ELSE Err("StartWithAmp", "", <<>>, line_num)

\* STRR: Instruction belongs to T2 where f1 is type Offset; a third argument
\* without a hash sign is ignored
strr(args, syms, line_num) ==
    LET len == check_args_len(Len(args) = 2 \/ Len(args) = 3, "strr", line_num)
    IN IF ~len.ok THEN len
       ELSE LET reg_dst == get_valid_reg(args[1], line_num)
            IN IF ~reg_dst.ok THEN reg_dst
               ELSE IF starts_with(args[2], <<"&">>)
               THEN LET reg_adr == get_valid_reg(Tail(args[2]), line_num)
                        offset == IF Len(args) = 3
                                     /\ starts_with(args[3], <<"#">>)
                                  THEN get_valid_imm(args[3], line_num)
                                  ELSE Ok(0)
                    IN IF ~reg_adr.ok THEN reg_adr
                       ELSE IF ~offset.ok THEN offset
                       ELSE Ok(encode(T2(5, reg_dst.val, reg_adr.val,
                                         offset.val)))
               ELSE Err("StartWithAmp", "", <<>>, line_num)

\* PUSH: Instruction belongs to T4
push_enc(args, syms, line_num) ==
    LET len == check_args_len(Len(args) >= 1 /\ Len(args) <= 3,
                              "push/pop operation", line_num)
    IN IF ~len.ok THEN len
       ELSE LET reg_a == get_valid_reg(args[1], line_num)
                reg_b == IF Len(args) \in {2, 3}
                         THEN get_valid_reg(args[2], line_num) ELSE Ok(0)
                reg_c == IF Len(args) = 3
                         THEN get_valid_reg(args[3], line_num) ELSE Ok(0)
            IN IF ~reg_a.ok THEN reg_a
               ELSE IF ~reg_b.ok THEN reg_b
               ELSE IF ~reg_c.ok THEN reg_c
               ELSE Ok(encode(T4(6, reg_a.val, reg_b.val, reg_c.val)))

\* bytes[0] |= 0b0000_1000 on an Ok result: the twin opcode
or_opcode_bit(res) ==
    IF ~res.ok THEN res
    ELSE Ok(<<BitOr(res.val[1], 8), res.val[2]>>)

\* POP: the encoding of push with 1 summed to the opcode field
pop_enc(args, syms, line_num) ==
    or_opcode_bit(push_enc(args, SymbolsNew, line_num))

\* the body shared by ADD (0x08 / 0x09) and SUB (0x0A / 0x0B): Immediate
\* variant is of T2 (f: Constant) and Register variant is of T4
arith_instr(name, op_im, op_rg, args, line_num) ==
    LET len == check_args_len(Len(args) = 3, name, line_num)
    IN IF ~len.ok THEN len
       ELSE LET reg_dst == get_valid_reg(args[1], line_num)
                reg_a == get_valid_reg(args[2], line_num)
            IN IF ~reg_dst.ok THEN reg_dst
               ELSE IF ~reg_a.ok THEN reg_a
               ELSE IF starts_with(args[3], <<"#">>)
               THEN LET constant == get_valid_imm(args[3], line_num)
                    IN IF ~constant.ok THEN constant
                       ELSE Ok(encode(T2(op_im, reg_dst.val, reg_a.val,
                                         constant.val)))
               ELSE IF args[3] \in DOMAIN REGISTERS
               THEN Ok(encode(T4(op_rg, reg_dst.val, reg_a.val,
                                 REGISTERS[args[3]])))
               ELSE Err("Unrecognized", "", args[3], line_num)

add(args, syms, line_num) == arith_instr("add", 8, 9, args, line_num)

sub(args, syms, line_num) == arith_instr("sub", 10, 11, args, line_num)

\* SHL: Instruction of type T5
shl(args, syms, line_num) ==
    LET len == check_args_len(Len(args) = 3, "shift", line_num)
    IN IF ~len.ok THEN len
       ELSE LET reg_dst == get_valid_reg(args[1], line_num)
                reg_src == get_valid_reg(args[2], line_num)
            IN IF ~reg_dst.ok THEN reg_dst
               ELSE IF ~reg_src.ok THEN reg_src
               ELSE IF starts_with(args[3], <<"#">>)
               THEN LET constant == get_valid_imm(args[3], line_num)
                    IN IF ~constant.ok THEN constant
                       ELSE Ok(encode(T5(12, reg_dst.val, reg_src.val,
                                         constant.val)))
               ELSE Err("StartWithHash", "", <<>>, line_num)

\* SHR: the encoding of shl with 1 summed to the opcode field
shr(args, syms, line_num) == or_opcode_bit(shl(args, SymbolsNew, line_num))

\* AND: Instruction belongs to T4
and_enc(args, syms, line_num) ==
    LET len == check_args_len(Len(args) = 3, "logical operation", line_num)
    IN IF ~len.ok THEN len
       ELSE LET reg_dst == get_valid_reg(args[1], line_num)
                reg_a == get_valid_reg(args[2], line_num)
                reg_b == get_valid_reg(args[3], line_num)
            IN IF ~reg_dst.ok THEN reg_dst
               ELSE IF ~reg_a.ok THEN reg_a
               ELSE IF ~reg_b.ok THEN reg_b
               ELSE Ok(encode(T4(14, reg_dst.val, reg_a.val, reg_b.val)))

\* OR: the encoding of and with 1 summed to the opcode field
or_enc(args, syms, line_num) ==
    or_opcode_bit(and_enc(args, SymbolsNew, line_num))

\* NOT: Instruction belongs to T2
not_enc(args, syms, line_num) ==
    LET len == check_args_len(Len(args) = 2, "not", line_num)
    IN IF ~len.ok THEN len
       ELSE LET reg_dst == get_valid_reg(args[1], line_num)
                reg_src == get_valid_reg(args[2], line_num)
            IN IF ~reg_dst.ok THEN reg_dst
               ELSE IF ~reg_src.ok THEN reg_src
               ELSE Ok(encode(T2(16, reg_dst.val, reg_src.val, UNUSED)))

\* RET: Instruction belongs to T3
ret_enc(args, syms, line_num) ==
    LET len == check_args_len(Len(args) = 0, "ret", line_num)
    IN IF ~len.ok THEN len ELSE Ok(encode(T3(19, UNUSED)))

\* CMP: Immediate variant is of T1 and Register variant of T2 (f1: Unused)
cmp(args, syms, line_num) ==
    LET len == check_args_len(Len(args) = 2, "cmp", line_num)
    IN IF ~len.ok THEN len
       ELSE LET reg_a == get_valid_reg(args[1], line_num)
            IN IF ~reg_a.ok THEN reg_a
               ELSE IF starts_with(args[2], <<"#">>)
               THEN LET constant == get_valid_imm(args[2], line_num)
                    IN IF ~constant.ok THEN constant
                       ELSE Ok(encode(T1(20, reg_a.val, constant.val)))
               ELSE IF args[2] \in DOMAIN REGISTERS
               THEN Ok(encode(T2(21, reg_a.val, REGISTERS[args[2]], UNUSED)))
               ELSE Err("Unrecognized", "", args[2], line_num)

\* HALT: Instruction belongs to T3
halt(args, syms, line_num) ==
    LET len == check_args_len(Len(args) = 0, "halt", line_num)
    IN IF ~len.ok THEN len ELSE Ok(encode(T3(28, UNUSED)))

\* Look-up table for Mnemonics: the keys
MNEMONICS ==
    {<<"m", "o", "v">>,
     <<"l", "d", "a">>,
     <<"l", "d", "r">>,
     <<"s", "t", "r", "a">>,
     <<"s", "t", "r", "r">>,
     <<"p", "u", "s", "h">>,
     <<"p", "o", "p">>,
     <<"a", "d", "d">>,
     <<"s", "u", "b">>,
     <<"s", "h", "l">>,
     <<"s", "h", "r">>,
     <<"a", "n", "d">>,
     <<"o", "r">>,
     <<"n", "o", "t">>,
     <<"j", "m", "p">>,
     <<"b", "l", "n">>,
     <<"r", "e", "t">>,
     <<"c", "m", "p">>,
     <<"b", "e", "q">>,
     <<"b", "n", "e">>,
     <<"b", "g", "t">>,
     <<"b", "g", "t", "u">>,
     <<"b", "l", "t">>,
     <<"b", "l", "t", "u">>,
     <<"h", "a", "l", "t">>}

\* the encoder function the look-up table holds for mnemonic m, applied
MNEMONICS_call(m, args, syms, line_num) ==
    CASE m = <<"m", "o", "v">> -> mov(args, syms, line_num)
      [] m = <<"l", "d", "a">> -> lda(args, syms, line_num)
      [] m = <<"l", "d", "r">> -> ldr(args, syms, line_num)
      [] m = <<"s", "t", "r", "a">> -> stra(args, syms, line_num)
      [] m = <<"s", "t", "r", "r">> -> strr(args, syms, line_num)
      [] m = <<"p", "u", "s", "h">> -> push_enc(args, syms, line_num)
      [] m = <<"p", "o", "p">> -> pop_enc(args, syms, line_num)
      [] m = <<"a", "d", "d">> -> add(args, syms, line_num)
      [] m = <<"s", "u", "b">> -> sub(args, syms, line_num)
      [] m = <<"s", "h", "l">> -> shl(args, syms, line_num)
      [] m = <<"s", "h", "r">> -> shr(args, syms, line_num)
      [] m = <<"a", "n", "d">> -> and_enc(args, syms, line_num)
      [] m = <<"o", "r">> -> or_enc(args, syms, line_num)
      [] m = <<"n", "o", "t">> -> not_enc(args, syms, line_num)
      [] m = <<"j", "m", "p">> -> jmp_enc(args, syms, line_num)
      [] m = <<"b", "l", "n">> -> bln_enc(args, syms, line_num)
      [] m = <<"r", "e", "t">> -> ret_enc(args, syms, line_num)
      [] m = <<"c", "m", "p">> -> cmp(args, syms, line_num)
      [] m = <<"b", "e", "q">> -> beq_enc(args, syms, line_num)
      [] m = <<"b", "n", "e">> -> bne_enc(args, syms, line_num)
      [] m = <<"b", "g", "t">> -> bgt_enc(args, syms, line_num)
      [] m = <<"b", "g", "t", "u">> -> bgtu_enc(args, syms, line_num)
      [] m = <<"b", "l", "t">> -> blt_enc(args, syms, line_num)
      [] m = <<"b", "l", "t", "u">> -> bltu_enc(args, syms, line_num)
      [] m = <<"h", "a", "l", "t">> -> halt(args, syms, line_num)


(***************************************************************************)
(* Emulator: cpu_cycle.rs and the main loop                                *)
(***************************************************************************)
CODE_SECTION_LENGTH == 300
STACK_LENGTH == 50

\* Fetch stage: returns the instruction in RAM specified by pc
fetch(pc, ram) == ram[pc]

\* a decode stage that shifts by one bit too few and so keeps six bits
decode_six_bits(ir_reg) ==
    LET OPCODE_SHIFT_OFFSET == 10
    IN AsU8(ShrU16(ir_reg, OPCODE_SHIFT_OFFSET))

\* Decode stage: the 5 bits of the opcode
decode(ir_reg) ==
    LET OPCODE_SHIFT_OFFSET == 11
    IN AsU8(ShrU16(ir_reg, OPCODE_SHIFT_OFFSET))

\* what execute hands back to the loop: None, Some(Continue) or Some(Break)
Flow(r, m, fl) == [regs |-> r, mem |-> m, fault |-> FALSE, flow |-> fl]

FlowOf(res, fl) ==
    [regs |-> res.regs, mem |-> res.mem, fault |-> res.fault, flow |-> fl]

\* Loads the bytes of the binary file into a vector of 16-bit words
load_program(file) ==
    [idx \in 0..(CODE_SECTION_LENGTH + STACK_LENGTH - 1) |->
        IF idx < Len(file) \div 2
        THEN file[2 * idx + 1] * 256 + file[2 * idx + 2]
        ELSE 0]

\* the loop is running and the word fetched at pc decodes to opcode op
Decoded(op) ==
    /\ status = "running"
    /\ regs.pc \in DOMAIN mem
    /\ from_u8(decode(fetch(regs.pc, mem))) = Some(op)

\* the register file once the fetch stage has filled ir
Fetched == [regs EXCEPT !.ir = fetch(regs.pc, mem)]

\* what execute returns for the branch opcodes, taken or not
skip_pc_increment == "Continue"

\* a loop that leaves pc to the instructions: it never adds 1
Cycle_without_increment(out) ==
    /\ mem' = out.mem
    /\ regs' = out.regs
    /\ status' = IF out.fault THEN "panicked"
                 ELSE IF out.flow = "Break" THEN "halted" ELSE status
    /\ UNCHANGED <<line, bytes, asm_vars>>

\* the rest of one iteration of the fetch-decode-execute loop, out being
\* what execute left behind: Continue skips the increment of pc, Break
\* leaves the loop, and an out-of-bounds index inside the instruction
\* panics
Cycle(out) ==
    /\ mem' = out.mem
    /\ IF out.fault
       THEN regs' = out.regs /\ status' = "panicked"
       ELSE IF out.flow = "Break"
       THEN regs' = out.regs /\ status' = "halted"
       ELSE IF out.flow = "Continue"
       THEN regs' = out.regs /\ status' = status
       ELSE /\ regs' = [out.regs EXCEPT !.pc = AsU16(@ + 1)]
            /\ status' = status
    /\ UNCHANGED <<line, bytes, asm_vars>>

\* Execute Stage: one action per arm of the match on the decoded opcode
ExecMovIm ==
    Decoded(MovIm) /\ Cycle(Flow(mov_im(Fetched), mem, "None"))

ExecMovRg ==
    Decoded(MovRg) /\ Cycle(Flow(mov_rg(Fetched), mem, "None"))

ExecLoad ==
    Decoded(Load) /\ Cycle(FlowOf(load(Fetched, mem), "None"))

ExecLoadRg ==
    Decoded(LoadRg) /\ Cycle(FlowOf(load_rg(Fetched, mem), "None"))

ExecStore ==
    Decoded(Store) /\ Cycle(FlowOf(store(Fetched, mem), "None"))

ExecStrRg ==
    Decoded(StrRg) /\ Cycle(FlowOf(store_rg(Fetched, mem), "None"))

ExecPush ==
    Decoded(Push) /\ Cycle(FlowOf(push(Fetched, mem), "None"))

ExecPop ==
    Decoded(Pop) /\ Cycle(FlowOf(pop(Fetched, mem), "None"))

ExecAddIm ==
    Decoded(AddIm) /\ Cycle(Flow(add_im(Fetched), mem, "None"))

ExecAddRg ==
    Decoded(AddRg) /\ Cycle(Flow(add_rg(Fetched), mem, "None"))

ExecSubIm ==
    Decoded(SubIm) /\ Cycle(Flow(sub_im(Fetched), mem, "None"))

ExecSubRg ==
    Decoded(SubRg) /\ Cycle(Flow(sub_rg(Fetched), mem, "None"))

ExecShftL ==
    Decoded(ShftL) /\ Cycle(Flow(shift_l(Fetched), mem, "None"))

ExecShftR ==
    Decoded(ShftR) /\ Cycle(Flow(shift_r(Fetched), mem, "None"))

ExecAnd ==
    Decoded(And) /\ Cycle(Flow(and(Fetched), mem, "None"))

ExecOr ==
    Decoded(Or) /\ Cycle(Flow(or(Fetched), mem, "None"))

ExecNot ==
    Decoded(Not) /\ Cycle(Flow(not(Fetched), mem, "None"))

ExecJmp ==
    Decoded(Jmp) /\ Cycle(Flow(jmp(Fetched), mem, skip_pc_increment))

ExecBln ==
    Decoded(Bln) /\ Cycle(Flow(bln(Fetched), mem, skip_pc_increment))

ExecRet ==
    Decoded(Ret) /\ Cycle(Flow(ret(Fetched), mem, skip_pc_increment))

ExecCmpIm ==
    Decoded(CmpIm) /\ Cycle(Flow(cmp_im(Fetched), mem, "None"))

ExecCmpRg ==
    Decoded(CmpRg) /\ Cycle(Flow(cmp_rg(Fetched), mem, "None"))

ExecBeq ==
    Decoded(Beq) /\ Cycle(Flow(beq(Fetched), mem, skip_pc_increment))

ExecBne ==
    Decoded(Bne) /\ Cycle(Flow(bne(Fetched), mem, skip_pc_increment))

ExecBgt ==
    Decoded(Bgt) /\ Cycle(Flow(bgt(Fetched), mem, skip_pc_increment))

ExecBgtu ==
    Decoded(Bgtu) /\ Cycle(Flow(bgtu(Fetched), mem, skip_pc_increment))

ExecBlt ==
    Decoded(Blt) /\ Cycle(Flow(blt(Fetched), mem, skip_pc_increment))

ExecBltu ==
    Decoded(Bltu) /\ Cycle(Flow(bltu(Fetched), mem, skip_pc_increment))

ExecHalt ==
    Decoded(Halt) /\ Cycle(Flow(Fetched, mem, "Break"))

\* ram[pc as usize] with pc beyond the vector: the fetch panics
FetchPanic ==
    /\ status = "running"
    /\ regs.pc \notin DOMAIN mem
    /\ status' = "panicked"
    /\ UNCHANGED <<regs, mem, line, bytes, asm_vars>>

\* the default arm of the opcode match: panic!("Unrecognized Opcode")
UnrecognizedOpcode ==
    /\ status = "running"
    /\ regs.pc \in DOMAIN mem
    /\ from_u8(decode(fetch(regs.pc, mem))) = None
    /\ regs' = [regs EXCEPT !.ir = fetch(regs.pc, mem)]
    /\ status' = "panicked"
    /\ UNCHANGED <<mem, line, bytes, asm_vars>>


(***************************************************************************)
(* The binary images the emulator is started on.  An image is the byte     *)
(* stream of a program: instruction lines encoded by the assembler's       *)
(* encoders and 16-bit data words, MSB first.                              *)
(***************************************************************************)
MaxData == 1

\* the values of the two data words of an image
DataVals == {-32768, 32767} \cup (-MaxData..MaxData)

\* an instruction line, and a 16-bit data word
L(m, args) == [m |-> m, args |-> args, raw |-> -1]

W(w) == [m |-> <<>>, args |-> <<>>, raw |-> w]

\* a T4 word with a register count in its two low bits
raw_t4(op, ra, rb, rc, num) ==
    LET b == encode(T4(op, ra, rb, rc)) IN b[1] * 256 + b[2] + num

\* the bytes of the items from index i on: an instruction line gives the
\* two bytes of its encoder, a data word its MSB and LSB
RECURSIVE image_of(_, _, _)
image_of(items, syms, i) ==
    IF i > Len(items) THEN <<>>
    ELSE (IF items[i].raw >= 0
          THEN <<AsU8(ShrU16(items[i].raw, 8)), AsU8(items[i].raw)>>
          ELSE MNEMONICS_call(items[i].m, items[i].args, syms, i - 1).val)
         \o image_of(items, syms, i + 1)

\* instruction sequences that leave the flags in different states
Preps ==
    {<<L(<<"c", "m", "p">>, <<<<"r", "1">>, <<"r", "2">>>>)>>,
     <<L(<<"a", "d", "d">>, <<<<"r", "4">>, <<"r", "1">>, <<"r", "2">>>>)>>,
     <<L(<<"s", "u", "b">>, <<<<"r", "4">>, <<"r", "2">>, <<"r", "1">>>>)>>}

\* the instruction sequences whose outcome depends on, or is recorded in,
\* the flags: they run after every preparation
FlagTests ==
    {<<L(<<"a", "d", "d">>, <<<<"r", "3">>, <<"r", "1">>, <<"r", "2">>>>)>>,
     <<L(<<"a", "d", "d">>, <<<<"r", "1">>, <<"r", "1">>, <<"r", "2">>>>)>>,
     <<L(<<"a", "d", "d">>, <<<<"r", "3">>, <<"r", "1">>, <<"#", "1">>>>)>>,
     <<L(<<"a", "d", "d">>, <<<<"r", "3">>, <<"r", "1">>, <<"#", "3", "1">>>>)>>,
     <<L(<<"s", "u", "b">>, <<<<"r", "3">>, <<"r", "1">>, <<"r", "2">>>>)>>,
     <<L(<<"s", "u", "b">>, <<<<"r", "1">>, <<"r", "1">>, <<"r", "2">>>>)>>,
     <<L(<<"s", "u", "b">>, <<<<"r", "3">>, <<"r", "1">>, <<"#", "1">>>>)>>,
     <<L(<<"s", "u", "b">>, <<<<"r", "3">>, <<"r", "1">>, <<"#", "3", "1">>>>)>>,
     <<L(<<"c", "m", "p">>, <<<<"r", "1">>, <<"r", "2">>>>)>>,
     <<L(<<"c", "m", "p">>, <<<<"r", "1">>, <<"#", "1">>>>)>>,
     <<L(<<"c", "m", "p">>, <<<<"r", "1">>, <<"#", "0">>>>)>>,
     <<L(<<"c", "m", "p">>, <<<<"r", "2">>, <<"#", "1", "2", "7">>>>)>>,
     <<L(<<"s", "h", "l">>, <<<<"r", "3">>, <<"r", "1">>, <<"#", "1">>>>)>>,
     <<L(<<"s", "h", "l">>, <<<<"r", "3">>, <<"r", "1">>, <<"#", "1", "5">>>>)>>,
     <<L(<<"s", "h", "l">>, <<<<"r", "3">>, <<"r", "1">>, <<"#", "0">>>>)>>,
     <<L(<<"s", "h", "r">>, <<<<"r", "3">>, <<"r", "1">>, <<"#", "1">>>>)>>,
     <<L(<<"s", "h", "r">>, <<<<"r", "3">>, <<"r", "1">>, <<"#", "1", "5">>>>)>>,
     <<L(<<"s", "h", "r">>, <<<<"r", "3">>, <<"r", "1">>, <<"#", "0">>>>)>>,
     <<L(<<"a", "n", "d">>, <<<<"r", "3">>, <<"r", "1">>, <<"r", "2">>>>)>>,
     <<L(<<"o", "r">>, <<<<"r", "3">>, <<"r", "1">>, <<"r", "2">>>>)>>,
     <<L(<<"n", "o", "t">>, <<<<"r", "3">>, <<"r", "1">>>>)>>,
     <<L(<<"m", "o", "v">>, <<<<"r", "3">>, <<"#", "5">>>>)>>,
     <<L(<<"m", "o", "v">>, <<<<"r", "3">>, <<"r", "1">>>>)>>,
     <<L(<<"l", "d", "a">>, <<<<"x">>>>)>>,
     <<L(<<"s", "t", "r", "a">>, <<<<"y">>>>)>>,
     <<L(<<"l", "d", "r">>, <<<<"r", "3">>, <<"&", "r", "1">>, <<"#", "2">>>>)>>,
     <<L(<<"s", "t", "r", "r">>, <<<<"r", "1">>, <<"&", "r", "2">>, <<"#", "1">>>>)>>,
     <<L(<<"b", "e", "q">>, <<<<"e", "n", "d">>>>)>>,
     <<L(<<"b", "n", "e">>, <<<<"e", "n", "d">>>>)>>,
     <<L(<<"b", "g", "t">>, <<<<"e", "n", "d">>>>)>>,
     <<L(<<"b", "g", "t", "u">>, <<<<"e", "n", "d">>>>)>>,
     <<L(<<"b", "l", "t">>, <<<<"e", "n", "d">>>>)>>,
     <<L(<<"b", "l", "t", "u">>, <<<<"e", "n", "d">>>>)>>}

\* the instruction sequences that neither read nor write the flags
PlainTests ==
    {<<L(<<"j", "m", "p">>, <<<<"e", "n", "d">>>>)>>,
     <<L(<<"b", "l", "n">>, <<<<"f", "n">>>>)>>,
     <<L(<<"m", "o", "v">>, <<<<"l", "r">>, <<"r", "2">>>>), L(<<"r", "e", "t">>, <<>>)>>,
     <<L(<<"l", "d", "a">>, <<<<"x">>>>)>>,
     <<L(<<"s", "t", "r", "a">>, <<<<"y">>>>)>>,
     <<L(<<"l", "d", "r">>, <<<<"r", "3">>, <<"&", "r", "1">>, <<"#", "2">>>>)>>,
     <<L(<<"s", "t", "r", "r">>, <<<<"r", "1">>, <<"&", "r", "2">>, <<"#", "1">>>>)>>,
     <<L(<<"m", "o", "v">>, <<<<"s", "p">>, <<"#", "1", "0", "0">>>>), L(<<"p", "u", "s", "h">>, <<<<"r", "1">>>>), L(<<"p", "o", "p">>, <<<<"r", "3">>>>)>>,
     <<L(<<"m", "o", "v">>, <<<<"s", "p">>, <<"#", "1", "0", "0">>>>), L(<<"p", "u", "s", "h">>, <<<<"r", "1">>, <<"r", "2">>>>), L(<<"p", "o", "p">>, <<<<"r", "3">>, <<"r", "4">>>>)>>,
     <<L(<<"m", "o", "v">>, <<<<"s", "p">>, <<"#", "1", "0", "0">>>>), L(<<"p", "u", "s", "h">>, <<<<"r", "1">>, <<"r", "2">>, <<"r", "3">>>>), L(<<"p", "o", "p">>, <<<<"r", "2">>, <<"r", "3">>, <<"r", "4">>>>)>>,
     <<L(<<"m", "o", "v">>, <<<<"s", "p">>, <<"#", "1", "0", "0">>>>), W(raw_t4(Push, 1, 0, 0, 1)), W(raw_t4(Pop, 3, 0, 0, 1))>>,
     <<L(<<"m", "o", "v">>, <<<<"s", "p">>, <<"#", "1", "0", "0">>>>), W(raw_t4(Push, 1, 2, 0, 2)), W(raw_t4(Pop, 3, 4, 0, 2))>>,
     <<L(<<"m", "o", "v">>, <<<<"s", "p">>, <<"#", "1", "0", "0">>>>), W(raw_t4(Push, 1, 2, 7, 3)), W(raw_t4(Pop, 2, 3, 4, 3))>>,
     <<L(<<"m", "o", "v">>, <<<<"s", "p">>, <<"#", "1", "0", "0">>>>), W(raw_t4(Push, 2, 0, 0, 1)), W(raw_t4(Pop, 2, 0, 0, 1))>>,
     <<L(<<"m", "o", "v">>, <<<<"s", "p">>, <<"#", "1", "0", "0">>>>), W(raw_t4(Push, 1, 2, 0, 2)), W(raw_t4(Pop, 1, 2, 0, 2))>>,
     <<L(<<"m", "o", "v">>, <<<<"s", "p">>, <<"#", "1", "0", "0">>>>), W(raw_t4(Push, 1, 2, 7, 3)), W(raw_t4(Pop, 1, 2, 7, 3))>>,
     <<W(raw_t4(Push, 1, 2, 0, 2))>>,
     <<L(<<"m", "o", "v">>, <<<<"s", "p">>, <<"r", "2">>>>), W(raw_t4(Pop, 3, 0, 0, 1))>>,
     <<W(29 * 2048)>>,
     <<W(30 * 2048)>>,
     <<W(31 * 2048)>>,
     <<W(Load * 2048 + CODE_SECTION_LENGTH + STACK_LENGTH)>>,
     <<W(Store * 2048 + 2047)>>,
     <<L(<<"h", "a", "l", "t">>, <<>>)>>}

\* r1 and r2 are loaded from the data words x and y, then prep and test run;
\* "end" labels the halt and "fn" a subroutine after it
ProgramItems(prep, test, d0, d1) ==
    <<L(<<"l", "d", "a">>, <<<<"x">>>>), L(<<"m", "o", "v">>, <<<<"r", "1">>, <<"m", "b", "r">>>>), L(<<"l", "d", "a">>, <<<<"y">>>>), L(<<"m", "o", "v">>, <<<<"r", "2">>, <<"m", "b", "r">>>>)>>
    \o prep \o test \o
    <<L(<<"m", "o", "v">>, <<<<"r", "4">>, <<"#", "1">>>>), L(<<"h", "a", "l", "t">>, <<>>), L(<<"m", "o", "v">>, <<<<"r", "4">>, <<"#", "2">>>>), L(<<"r", "e", "t">>, <<>>)>>
    \o <<W(AsU16(d0)), W(AsU16(d1))>>

ProgramSyms(prep, test) ==
    LET end == 4 + Len(prep) + Len(test) + 1
    IN [SymbolsNew EXCEPT
          !.labels = (<<"e", "n", "d">> :> end) @@ (<<"f", "n">> :> (end + 1))
                     @@ (<<"x">> :> (end + 3)) @@ (<<"y">> :> (end + 4))]

\* a call whose subroutine starts right behind it and returns at once
CallNextItems == <<L(<<"m", "o", "v">>, <<<<"r", "1">>, <<"#", "1">>>>), L(<<"b", "l", "n">>, <<<<"f", "n">>>>), L(<<"r", "e", "t">>, <<>>)>>

CallNextSyms == [SymbolsNew EXCEPT !.labels = (<<"f", "n">> :> 2)]

Images ==
    {image_of(ProgramItems(prep, test, d0, d1), ProgramSyms(prep, test), 1) :
        prep \in Preps, test \in FlagTests, d0 \in DataVals, d1 \in DataVals}
    \cup
    {image_of(ProgramItems(<<>>, test, d0, d1), ProgramSyms(<<>>, test), 1) :
        test \in PlainTests, d0 \in DataVals, d1 \in DataVals}
    \cup {image_of(CallNextItems, CallNextSyms, 1)}

\* the line and result slots of the encoders while the emulator runs
NoLine == [m |-> <<>>, args |-> <<>>]

NoBytes == Err("pending", "", <<>>, 0)

\* the assembler's passes are not running: no source, no output
AsmIdle ==
    /\ first_run = <<>>
    /\ source = <<>>
    /\ symbols = SymbolsNew
    /\ address = 0
    /\ line_idx = 0
    /\ out_file = <<>>

InitEmu ==
    /\ AsmIdle
    /\ regs = RegistersNew
    /\ \E file \in Images : mem = load_program(file)
    /\ status = "running"
    /\ line = NoLine
    /\ bytes = NoBytes

Init == InitEmu

Next ==
    \/ ExecMovIm
    \/ ExecMovRg
    \/ ExecLoad
    \/ ExecLoadRg
    \/ ExecStore
    \/ ExecStrRg
    \/ ExecPush
    \/ ExecPop
    \/ ExecAddIm
    \/ ExecAddRg
    \/ ExecSubIm
    \/ ExecSubRg
    \/ ExecShftL
    \/ ExecShftR
    \/ ExecAnd
    \/ ExecOr
    \/ ExecNot
    \/ ExecJmp
    \/ ExecBln
    \/ ExecRet
    \/ ExecCmpIm
    \/ ExecCmpRg
    \/ ExecBeq
    \/ ExecBne
    \/ ExecBgt
    \/ ExecBgtu
    \/ ExecBlt
    \/ ExecBltu
    \/ ExecHalt
    \/ FetchPanic
    \/ UnrecognizedOpcode

Spec == Init /\ [][Next]_vars


(***************************************************************************)
(* The assembler's second pass on one instruction line: the lines handed   *)
(* to the encoders, and the step that encodes one.                         *)
(***************************************************************************)
DigitChars == <<"0", "1", "2", "3", "4", "5", "6", "7", "8", "9">>

\* the decimal digits of a natural number
RECURSIVE decimal(_)
decimal(n) ==
    IF n < 10 THEN <<DigitChars[n + 1]>>
    ELSE decimal(n \div 10) \o <<DigitChars[(n % 10) + 1]>>

\* the source token of the immediate n
ImmToken(n) ==
    <<"#">> \o (IF n < 0 THEN <<"-">> \o decimal(0 - n) ELSE decimal(n))

\* the immediates get_valid_imm accepts: the range of i8
EncImms == -128..127

EncRegs == {<<"r", "0">>, <<"r", "3">>, <<"m", "b", "r">>}

EncSyms ==
    [SymbolsNew EXCEPT
        !.labels = (<<"s", "t", "a", "r", "t">> :> 0) @@ (<<"l", "o", "o", "p">> :> 299)
                   @@ (<<"f", "a", "r">> :> 2047) @@ (<<"b", "i", "g">> :> 2048)]

\* mnemonics by the shape of their arguments
ImmMnemonics2 == {<<"m", "o", "v">>, <<"c", "m", "p">>}

ImmMnemonics3 == {<<"a", "d", "d">>, <<"s", "u", "b">>, <<"s", "h", "l">>, <<"s", "h", "r">>}

MemMnemonics == {<<"l", "d", "r">>, <<"s", "t", "r", "r">>}

RegMnemonics2 == {<<"m", "o", "v">>, <<"c", "m", "p">>, <<"n", "o", "t">>}

RegMnemonics3 == {<<"a", "d", "d">>, <<"s", "u", "b">>, <<"a", "n", "d">>, <<"o", "r">>}

StackMnemonics == {<<"p", "u", "s", "h">>, <<"p", "o", "p">>}

LabelMnemonics ==
    {<<"l", "d", "a">>, <<"s", "t", "r", "a">>, <<"j", "m", "p">>, <<"b", "l", "n">>,
     <<"b", "e", "q">>, <<"b", "n", "e">>, <<"b", "g", "t">>, <<"b", "g", "t", "u">>,
     <<"b", "l", "t">>, <<"b", "l", "t", "u">>}

\* operands of lines that the encoders reject: a register, a name that is
\* no register and a number without '#'
ErrOperands == {<<"r", "0">>, <<"r", "8">>, <<"4", "2">>}

\* lines with an operand that names no register, and lines with a wrong
\* number of arguments whatever the operands are
ErrLines ==
    {[m |-> m, args |-> <<a, b>>] :
        m \in RegMnemonics2, a \in ErrOperands, b \in ErrOperands}
    \cup {[m |-> m, args |-> <<a, ImmToken(1)>>] :
        m \in ImmMnemonics2, a \in ErrOperands}
    \cup {[m |-> m, args |-> <<a, b, c>>] :
        m \in RegMnemonics3 \cup StackMnemonics,
        a \in ErrOperands, b \in ErrOperands, c \in ErrOperands}
    \cup {[m |-> m, args |-> <<a, b, c>>] :
        m \in ImmMnemonics3, a \in ErrOperands, b \in ErrOperands,
        c \in {ImmToken(1), <<"4", "2">>}}
    \cup {[m |-> m, args |-> <<a, b>> \o c] :
        m \in MemMnemonics, a \in ErrOperands,
        b \in {<<"&", "r", "0">>, <<"&", "r", "8">>, <<"r", "8">>},
        c \in {<<>>, <<ImmToken(1)>>}}
    \cup {[m |-> m, args |-> <<a, b>>] :
        m \in StackMnemonics, a \in ErrOperands, b \in ErrOperands}
    \cup {[m |-> m, args |-> <<a>>] : m \in StackMnemonics, a \in ErrOperands}
    \cup {[m |-> m, args |-> [i \in 1..n |-> <<"r", "8">>]] :
        m \in MNEMONICS, n \in 0..4}

EncLines ==
    {[m |-> m, args |-> <<a, ImmToken(n)>>] :
        m \in ImmMnemonics2, a \in EncRegs, n \in EncImms}
    \cup {[m |-> m, args |-> <<a, b, ImmToken(n)>>] :
        m \in ImmMnemonics3, a \in EncRegs, b \in EncRegs, n \in EncImms}
    \cup {[m |-> m, args |-> <<a, <<"&">> \o b, ImmToken(n)>>] :
        m \in MemMnemonics, a \in EncRegs, b \in EncRegs, n \in EncImms}
    \cup {[m |-> m, args |-> <<a, <<"&">> \o b>>] :
        m \in MemMnemonics, a \in EncRegs, b \in EncRegs}
    \cup {[m |-> m, args |-> <<a, b>>] :
        m \in RegMnemonics2, a \in EncRegs, b \in EncRegs}
    \cup {[m |-> m, args |-> <<a, b, c>>] :
        m \in RegMnemonics3 \cup StackMnemonics,
        a \in EncRegs, b \in EncRegs, c \in EncRegs}
    \cup {[m |-> m, args |-> <<a, b>>] :
        m \in StackMnemonics, a \in EncRegs, b \in EncRegs}
    \cup {[m |-> m, args |-> <<a>>] : m \in StackMnemonics, a \in EncRegs}
    \cup {[m |-> m, args |-> <<l>>] :
        m \in LabelMnemonics, l \in DOMAIN EncSyms.labels}
    \cup {[m |-> <<"r", "e", "t">>, args |-> <<>>],
          [m |-> <<"h", "a", "l", "t">>, args |-> <<>>],
          [m |-> <<"n", "o", "p">>, args |-> <<>>]}
    \cup ErrLines

\* the assembler holds one instruction line; the emulator is not started
InitEnc ==
    /\ AsmIdle
    /\ regs = RegistersNew
    /\ mem = <<>>
    /\ status = "assembling"
    /\ line \in EncLines
    /\ bytes = NoBytes

\* the Instruction arm of assemble_program: look the mnemonic up and
\* encode the line into two bytes [msb, lsb]
EncodeLine ==
    /\ status = "assembling"
    /\ bytes' = IF line.m \in MNEMONICS
                THEN MNEMONICS_call(line.m, line.args, EncSyms, 0)
                ELSE Err("Unrecognized", "", line.m, 0)
    /\ status' = "assembled"
    /\ UNCHANGED <<regs, mem, line, asm_vars>>

NextEnc == EncodeLine

SpecEnc == InitEnc /\ [][NextEnc]_vars

(***************************************************************************)
(* Assembler: symbols.rs                                                   *)
(***************************************************************************)
\* the Range<usize> of a section whose start and end are both known
code_range(syms) ==
    IF syms.code_section[1] # None /\ syms.code_section[2] # None
    THEN Some(<<syms.code_section[1][1], syms.code_section[2][1]>>)
    ELSE None

data_range(syms) ==
    IF syms.data_section[1] # None /\ syms.data_section[2] # None
    THEN Some(<<syms.data_section[1][1], syms.data_section[2][1]>>)
    ELSE None

\* Range::contains
range_contains(r, idx) == r[1] <= idx /\ idx < r[2]

\* a section declaration that records its own start and leaves the section
\* declared before it open
update_sections_leaving_open(syms, s, line_num) ==
    IF s = "Code" THEN [syms EXCEPT !.code_section[1] = Some(line_num)]
    ELSE [syms EXCEPT !.data_section[1] = Some(line_num)]

update_sections(syms, s, line_num) ==
    LET neither_declared == /\ syms.code_section = <<None, None>>
                            /\ syms.data_section = <<None, None>>
    IN IF s = "Code"
       THEN IF neither_declared
            THEN [syms EXCEPT !.code_section[1] = Some(line_num)]
            ELSE [syms EXCEPT !.code_section[1] = Some(line_num),
                              !.data_section[2] = Some(line_num)]
       ELSE IF neither_declared
            THEN [syms EXCEPT !.data_section[1] = Some(line_num)]
            ELSE [syms EXCEPT !.data_section[1] = Some(line_num),
                              !.code_section[2] = Some(line_num)]

check_sections_valid(syms, line_num) ==
    LET c == syms.code_section
        d == syms.data_section
    IN CASE c[1] # None /\ c[2] # None /\ d[1] # None /\ d[2] = None /\ c[2] = d[1] ->
              Ok([syms EXCEPT !.data_section[2] = Some(line_num)])
         [] c[1] # None /\ c[2] = None /\ d[1] # None /\ d[2] # None /\ c[1] = d[2] ->
              Ok([syms EXCEPT !.code_section[2] = Some(line_num)])
         [] c[1] # None /\ c[2] = None /\ d = <<None, None>> ->
              Ok([syms EXCEPT !.code_section[2] = Some(line_num)])
         [] c = <<None, None>> /\ d[1] # None /\ d[2] = None ->
              Err("OnlyDataSection", "", <<>>, 0)
         [] c = <<None, None>> /\ d = <<None, None>> ->
              Err("NoSectionDecl", "", <<>>, 0)
         [] OTHER -> Ok(syms)

(***************************************************************************)
(* Assembler: parser.rs                                                    *)
(***************************************************************************)
\* str::contains
contains(s, p) ==
    \E i \in 1..(Len(s) - Len(p) + 1) : SubSeq(s, i, i + Len(p) - 1) = p

Whitespace == {" ", "\t"}

\* str::trim
RECURSIVE trim_start(_)
trim_start(s) ==
    IF s # <<>> /\ Head(s) \in Whitespace THEN trim_start(Tail(s)) ELSE s

RECURSIVE trim_end(_)
trim_end(s) ==
    IF s # <<>> /\ s[Len(s)] \in Whitespace
    THEN trim_end(SubSeq(s, 1, Len(s) - 1))
    ELSE s

trim(s) == trim_end(trim_start(s))

\* str::split on one character: the pieces between the separators
RECURSIVE split_acc(_, _, _)
split_acc(s, sep, cur) ==
    IF s = <<>> THEN <<cur>>
    ELSE IF Head(s) = sep THEN <<cur>> \o split_acc(Tail(s), sep, <<>>)
    ELSE split_acc(Tail(s), sep, Append(cur, Head(s)))

split(s, sep) == split_acc(s, sep, <<>>)

\* str::trim_matches('"')
RECURSIVE trim_quotes_start(_)
trim_quotes_start(s) ==
    IF s # <<>> /\ Head(s) = "\"" THEN trim_quotes_start(Tail(s)) ELSE s

RECURSIVE trim_quotes_end(_)
trim_quotes_end(s) ==
    IF s # <<>> /\ s[Len(s)] = "\""
    THEN trim_quotes_end(SubSeq(s, 1, Len(s) - 1))
    ELSE s

UpperCase ==
    <<"A", "B", "C", "D", "E", "F", "G", "H", "I", "J", "K", "L", "M", "N",
      "O", "P", "Q", "R", "S", "T", "U", "V", "W", "X", "Y", "Z">>

LowerCase ==
    <<"a", "b", "c", "d", "e", "f", "g", "h", "i", "j", "k", "l", "m", "n",
      "o", "p", "q", "r", "s", "t", "u", "v", "w", "x", "y", "z">>

\* str::to_lowercase
to_lowercase(s) ==
    [i \in 1..Len(s) |->
        IF \E k \in 1..26 : UpperCase[k] = s[i]
        THEN LowerCase[CHOOSE k \in 1..26 : UpperCase[k] = s[i]]
        ELSE s[i]]

\* str::as_bytes for the characters of the sources
as_byte(c) ==
    IF \E k \in 1..26 : LowerCase[k] = c
    THEN 96 + (CHOOSE k \in 1..26 : LowerCase[k] = c)
    ELSE IF \E k \in 1..26 : UpperCase[k] = c
    THEN 64 + (CHOOSE k \in 1..26 : UpperCase[k] = c)
    ELSE IF c \in DOMAIN DigitVal THEN 48 + DigitVal[c]
    ELSE CASE c = " " -> 32
           [] c = "\t" -> 9
           [] c = "\"" -> 34
           [] c = "#" -> 35
           [] c = "&" -> 38
           [] c = "," -> 44
           [] c = "-" -> 45
           [] c = "." -> 46
           [] c = "/" -> 47
           [] c = ":" -> 58
           [] c = "\\" -> 92

\* the kinds of expressions of a source line
Label(k) == [kind |-> "Label", name |-> k, m |-> <<>>, args |-> <<>>, d |-> <<>>]

Instruction(m, args) ==
    [kind |-> "Instruction", name |-> <<>>, m |-> m, args |-> args, d |-> <<>>]

Data(d) == [kind |-> "Data", name |-> <<>>, m |-> <<>>, args |-> <<>>, d |-> d]

Section(s) == [kind |-> "Section", name |-> s, m |-> <<>>, args |-> <<>>, d |-> <<>>]

NonRelevant ==
    [kind |-> "NonRelevant", name |-> <<>>, m |-> <<>>, args |-> <<>>, d |-> <<>>]

RECURSIVE truncate_at_comment(_)
truncate_at_comment(v) ==
    IF v = <<>> \/ starts_with(Head(v), <<"/", "/">>) THEN <<>>
    ELSE <<Head(v)>> \o truncate_at_comment(Tail(v))

RECURSIVE filter_non_blank(_)
filter_non_blank(v) ==
    IF v = <<>> THEN <<>>
    ELSE (IF Len(trim(Head(v))) # 0 THEN <<Head(v)>> ELSE <<>>)
         \o filter_non_blank(Tail(v))

trim_comments(args) == filter_non_blank(truncate_at_comment(args))

parsed_section(l, line_num) ==
    IF contains(l, <<"C", "o", "d", "e">>) \/ contains(l, <<"c", "o", "d", "e">>)
    THEN Ok(Section("Code"))
    ELSE IF contains(l, <<"D", "a", "t", "a">>) \/ contains(l, <<"d", "a", "t", "a">>)
    THEN Ok(Section("Data"))
    ELSE Err("WrongSection", "", trim(l), line_num)

\* the while loop of replace_control_ascii from index i on (i counts from 0)
RECURSIVE replace_control_ascii_from(_, _)
replace_control_ascii_from(s, i) ==
    IF i >= Len(s) - 1 THEN s
    ELSE IF s[i + 1] = 92 /\ s[i + 2] \in {110, 116}
    THEN replace_control_ascii_from(
             SubSeq(s, 1, i) \o <<IF s[i + 2] = 110 THEN 10 ELSE 9>>
                 \o SubSeq(s, i + 3, Len(s)),
             i + 1)
    ELSE replace_control_ascii_from(s, i + 1)

replace_control_ascii(s) == replace_control_ascii_from(s, 0)

\* the 8-bit data vector of 16-bit words: msb, lsb of each
RECURSIVE new_data(_)
new_data(data) ==
    IF data = <<>> THEN <<>>
    ELSE <<AsU8(ShrU16(Head(data), 8)), AsU8(Head(data))>> \o new_data(Tail(data))

\* a string line or an array line.  vec_len - 1 on the empty string
\* underflows: replace_control_ascii panics, or wraps and indexes beyond
\* the vector, which panics too.
parsed_data(l, line_num) ==
    IF starts_with(l, <<"\"">>)
    THEN LET chars == trim_quotes_end(trim_quotes_start(l))
             char_arr == [i \in 1..Len(chars) |-> as_byte(chars[i])]
         IN IF char_arr = <<>> THEN Err("panic", "", l, line_num)
            ELSE Ok(Data(new_data(Append(replace_control_ascii(char_arr), 0))))
    ELSE LET pieces == split(l, ",")
             data == [i \in 1..Len(pieces) |->
                         LET v == parse_int(trim(pieces[i]), -32768, 32767)
                         IN IF v = None THEN 0 ELSE AsU16(v[1])]
         IN Ok(Data(new_data(data)))

parsed_label(l, line_num) ==
    IF Cardinality({i \in 1..Len(l) : l[i] = ":"}) > 1
    THEN Err("LabelMoreColon", "", trim(l), line_num)
    ELSE LET k == SubSeq(l, 1, Len(l) - 1)
         IN IF contains(k, <<" ">>) \/ contains(k, <<"\t">>)
            THEN Err("LabelWhitespace", "", k, line_num)
            ELSE Ok(Label(k))

\* every character of the sources is ASCII, so instr[0].is_ascii() holds
parsed_instruction(l, line_num) ==
    LET instr == split(l, " ")
    IN Ok(Instruction(to_lowercase(Head(instr)), Tail(instr)))

\* Takes a single line from the file and determines what kind of line
\* content it is
parse_line(text, line_num) ==
    LET l == trim(text)
    IN IF starts_with(l, <<"/", "/">>) \/ l = <<>> THEN Ok(NonRelevant)
       ELSE IF starts_with(l, <<".", "s", "e", "c", "t", "i", "o", "n">>)
       THEN parsed_section(l, line_num)
       ELSE IF Head(l) = "\"" \/ Head(l) \in DOMAIN DigitVal
       THEN parsed_data(l, line_num)
       ELSE IF contains(l, <<":">>) THEN parsed_label(l, line_num)
       ELSE parsed_instruction(l, line_num)
(***************************************************************************)
(* Assembler: main, the first pass parse_symbols and the second pass       *)
(* assemble_program, one step per line read.                               *)
(***************************************************************************)
MaxLines == 4

SectionCode == <<".", "s", "e", "c", "t", "i", "o", "n", " ", "c", "o", "d", "e">>

SectionData == <<".", "s", "e", "c", "t", "i", "o", "n", " ", "d", "a", "t", "a">>

\* the lines a source is made of: section declarations, a label, two
\* instructions, an array of two words, an empty line and a label with a
\* blank in it
LineTexts ==
    {SectionCode,
     SectionData,
     <<"a", ":">>,
     <<"h", "a", "l", "t">>,
     <<"j", "m", "p", " ", "a">>,
     <<"7", ",", " ", "8">>,
     <<>>,
     <<"a", " ", "b", ":">>}

Sources == UNION {[1..n -> LineTexts] : n \in 0..MaxLines}

\* what out.bin holds before the assembler runs
FormerContents == <<222, 173>>

InitAsm ==
    /\ first_run = <<>>
    /\ regs = RegistersNew
    /\ mem = <<>>
    /\ line = NoLine
    /\ bytes = NoBytes
    /\ status = "first_pass"
    /\ source \in Sources
    /\ symbols = SymbolsNew
    /\ address = 0
    /\ line_idx = 0
    /\ out_file = FormerContents

\* parse_symbols reads the next line and it is of the given kind
FirstPassReads(kind) ==
    /\ status = "first_pass"
    /\ line_idx < Len(source)
    /\ parse_line(source[line_idx + 1], line_idx).ok
    /\ parse_line(source[line_idx + 1], line_idx).val.kind = kind

Parsed == parse_line(source[line_idx + 1], line_idx).val

\* the loop of a pass goes on to the next line
NextLine ==
    /\ line_idx' = line_idx + 1
    /\ UNCHANGED <<status, bytes>>

\* the pass returns the error e through the ? operator; a panic aborts
Fails(e, pass) ==
    /\ status' = IF e.kind = "panic" THEN "panicked" ELSE pass
    /\ bytes' = e
    /\ UNCHANGED line_idx

\* a first pass that lets a second declaration of a label replace the first
FirstPassLabel_replacing ==
    /\ FirstPassReads("Label")
    /\ symbols' = [symbols EXCEPT
                      !.labels = (Parsed.name :> address) @@ @]
    /\ NextLine
    /\ UNCHANGED <<regs, mem, line, first_run, source, address, out_file>>

\* LABELS: Append label to symbol table
FirstPassLabel ==
    /\ FirstPassReads("Label")
    /\ IF Parsed.name \in DOMAIN symbols.labels
       THEN /\ Fails(Err("LabelMultiple", "", <<>>, line_idx), "failed_first")
            /\ UNCHANGED symbols
       ELSE /\ symbols' = [symbols EXCEPT !.labels = @ @@ (Parsed.name :> address)]
            /\ NextLine
    /\ UNCHANGED <<regs, mem, line, first_run, source, address, out_file>>

\* SECTION: Determine line ranges for each program section
FirstPassSection ==
    /\ FirstPassReads("Section")
    /\ symbols' = update_sections(symbols, Parsed.name, line_idx)
    /\ NextLine
    /\ UNCHANGED <<regs, mem, line, first_run, source, address, out_file>>

\* DATA: Increment address by size of data
FirstPassData ==
    /\ FirstPassReads("Data")
    /\ address' = AsU16(address + (Len(Parsed.d) \div 2))
    /\ NextLine
    /\ UNCHANGED <<regs, mem, line, first_run, source, symbols, out_file>>

\* INSTRUCTIONS: Increment address by 1
FirstPassInstruction ==
    /\ FirstPassReads("Instruction")
    /\ address' = AsU16(address + 1)
    /\ NextLine
    /\ UNCHANGED <<regs, mem, line, first_run, source, symbols, out_file>>

\* Empty lines or comments not relevant to do any action
FirstPassNonRelevant ==
    /\ FirstPassReads("NonRelevant")
    /\ NextLine
    /\ UNCHANGED <<regs, mem, line, first_run, source, symbols, address, out_file>>

\* parse_line(&line, line_idx)? returns the line's error
FirstPassLineError ==
    /\ status = "first_pass"
    /\ line_idx < Len(source)
    /\ ~parse_line(source[line_idx + 1], line_idx).ok
    /\ Fails(parse_line(source[line_idx + 1], line_idx), "failed_first")
    /\ UNCHANGED <<regs, mem, line, first_run, source, symbols, address, out_file>>

\* after the last line: symbols.check_sections_valid(line_idx)?
FirstPassEnd ==
    /\ status = "first_pass"
    /\ line_idx = Len(source)
    /\ LET checked == check_sections_valid(symbols, line_idx)
       IN IF checked.ok
          THEN /\ symbols' = checked.val
               /\ status' = "first_pass_ok"
               /\ UNCHANGED <<bytes, line_idx>>
          ELSE /\ Fails(checked, "failed_first")
               /\ UNCHANGED symbols
    /\ UNCHANGED <<regs, mem, line, first_run, source, address, out_file>>

\* assemble_program begins: File::create opens out_file for writing and
\* truncates it
CreateOutFile ==
    /\ status = "first_pass_ok"
    /\ status' = "second_pass"
    /\ out_file' = <<>>
    /\ line_idx' = 0
    /\ UNCHANGED <<regs, mem, line, first_run, bytes, source, symbols, address>>

\* the line at idx lies in the code section
InCode(idx) ==
    code_range(symbols) # None /\ range_contains(code_range(symbols)[1], idx)

InData(idx) ==
    data_range(symbols) # None /\ range_contains(data_range(symbols)[1], idx)

\* a writer that puts each line's bytes in front of what the file holds
write_all_in_front(d) == out_file' = d \o out_file

\* out_file.write_all(d): the BufWriter hands the bytes to the file when it
\* is dropped, on every way out of assemble_program
write_all(d) == out_file' = out_file \o d

\* what the second pass does with a line of the code section
code_line(content, idx) ==
    IF ~content.ok THEN content
    ELSE IF content.val.kind = "Instruction"
    THEN IF content.val.m \in MNEMONICS
         THEN MNEMONICS_call(content.val.m, trim_comments(content.val.args),
                             symbols, idx)
         ELSE Err("Unrecognized", "", content.val.m, idx)
    ELSE IF content.val.kind = "Data"
    THEN Err("SectionMismatch", "", <<>>, idx)
    ELSE Ok(<<>>)

\* a data section that passes over instruction lines as it does over labels
data_line_passing_instructions(content, idx) ==
    IF ~content.ok THEN content
    ELSE IF content.val.kind = "Data" THEN Ok(content.val.d)
    ELSE Ok(<<>>)

\* what the second pass does with a line of the data section
data_line(content, idx) ==
    IF ~content.ok THEN content
    ELSE IF content.val.kind = "Data" THEN Ok(content.val.d)
    ELSE IF content.val.kind = "Instruction"
    THEN Err("SectionMismatch", "", <<>>, idx)
    ELSE Ok(<<>>)

\* the outcome of a line of the second pass: its bytes are written, or its
\* error is returned
Assembled(res) ==
    IF res.ok
    THEN /\ write_all(res.val)
         /\ NextLine
    ELSE /\ Fails(res, "failed_second")
         /\ UNCHANGED out_file

\* Assemble Code Section
AssembleCodeLine ==
    /\ status = "second_pass"
    /\ line_idx < Len(source)
    /\ InCode(line_idx)
    /\ Assembled(code_line(parse_line(source[line_idx + 1], line_idx), line_idx))
    /\ UNCHANGED <<regs, mem, line, first_run, source, symbols, address>>

\* Assemble Data Section
AssembleDataLine ==
    /\ status = "second_pass"
    /\ line_idx < Len(source)
    /\ ~InCode(line_idx)
    /\ InData(line_idx)
    /\ Assembled(data_line(parse_line(source[line_idx + 1], line_idx), line_idx))
    /\ UNCHANGED <<regs, mem, line, first_run, source, symbols, address>>

\* a line of neither section is passed over
AssembleNoSection ==
    /\ status = "second_pass"
    /\ line_idx < Len(source)
    /\ ~InCode(line_idx)
    /\ ~InData(line_idx)
    /\ NextLine
    /\ UNCHANGED <<regs, mem, line, first_run, source, symbols, address, out_file>>

\* the loop is over: assemble_program returns Ok(())
AssembleEnd ==
    /\ status = "second_pass"
    /\ line_idx = Len(source)
    /\ status' = "done"
    /\ UNCHANGED <<regs, mem, line, first_run, bytes, source, symbols, address, line_idx,
                   out_file>>

NextAsm ==
    \/ FirstPassLabel
    \/ FirstPassSection
    \/ FirstPassData
    \/ FirstPassInstruction
    \/ FirstPassNonRelevant
    \/ FirstPassLineError
    \/ FirstPassEnd
    \/ CreateOutFile
    \/ AssembleCodeLine
    \/ AssembleDataLine
    \/ AssembleNoSection
    \/ AssembleEnd

SpecAsm == InitAsm /\ [][NextAsm]_vars


(***************************************************************************)
(* parse_symbols called twice on the same source file: what the first     *)
(* call returned is kept, and the second call starts as every call does.   *)
(***************************************************************************)
\* what a call of parse_symbols returned: Ok(symbols) or the error
Returned == [ok |-> status = "first_pass_ok", symbols |-> symbols, err |-> bytes]

\* a second call that goes on with the table of the first one
Rerun_keeping_table ==
    /\ status \in {"first_pass_ok", "failed_first"}
    /\ first_run = <<>>
    /\ first_run' = <<Returned>>
    /\ address' = 0
    /\ line_idx' = 0
    /\ status' = "first_pass"
    /\ bytes' = NoBytes
    /\ UNCHANGED <<regs, mem, line, source, symbols, out_file>>

\* parse_symbols is called again: let mut symbols = Symbols::new(),
\* let mut address: u16 = 0, and the file is read from its first line
Rerun ==
    /\ status \in {"first_pass_ok", "failed_first"}
    /\ first_run = <<>>
    /\ first_run' = <<Returned>>
    /\ symbols' = SymbolsNew
    /\ address' = 0
    /\ line_idx' = 0
    /\ status' = "first_pass"
    /\ bytes' = NoBytes
    /\ UNCHANGED <<regs, mem, line, source, out_file>>

NextTwice ==
    \/ FirstPassLabel
    \/ FirstPassSection
    \/ FirstPassData
    \/ FirstPassInstruction
    \/ FirstPassNonRelevant
    \/ FirstPassLineError
    \/ FirstPassEnd
    \/ Rerun

SpecTwice == InitAsm /\ [][NextTwice]_vars


(***************************************************************************)
(* The toolchain on whole source files: the assembler's two passes, and    *)
(* then the emulator started on the image the second pass wrote.           *)
(***************************************************************************)
\* a program that executes every instruction once and halts
TourSource ==
    <<<<"/", "/", " ", "e", "v", "e", "r", "y", " ", "i", "n", "s", "t", "r", "u", "c", "t", "i", "o", "n", " ", "o", "n", "c", "e">>,
      <<".", "s", "e", "c", "t", "i", "o", "n", " ", "c", "o", "d", "e">>,
      <<"m", "o", "v", " ", "s", "p", " ", "#", "1", "0", "0">>,
      <<"m", "o", "v", " ", "r", "0", " ", "#", "5">>,
      <<"m", "o", "v", " ", "r", "1", " ", "r", "0">>,
      <<"a", "d", "d", " ", "r", "2", " ", "r", "0", " ", "r", "1">>,
      <<"a", "d", "d", " ", "r", "2", " ", "r", "2", " ", "#", "1">>,
      <<"s", "u", "b", " ", "r", "3", " ", "r", "2", " ", "r", "0">>,
      <<"s", "u", "b", " ", "r", "3", " ", "r", "3", " ", "#", "1">>,
      <<"s", "h", "l", " ", "r", "3", " ", "r", "3", " ", "#", "1">>,
      <<"s", "h", "r", " ", "r", "3", " ", "r", "3", " ", "#", "1">>,
      <<"a", "n", "d", " ", "r", "4", " ", "r", "3", " ", "r", "0">>,
      <<"o", "r", " ", "r", "4", " ", "r", "3", " ", "r", "0">>,
      <<"n", "o", "t", " ", "r", "4", " ", "r", "4">>,
      <<"p", "u", "s", "h", " ", "r", "0", " ", "r", "1">>,
      <<"p", "o", "p", " ", "r", "2", " ", "r", "3">>,
      <<"l", "d", "a", " ", "x">>,
      <<"s", "t", "r", "a", " ", "y">>,
      <<"l", "d", "r", " ", "r", "3", " ", "&", "r", "1", " ", "#", "2">>,
      <<"s", "t", "r", "r", " ", "r", "3", " ", "&", "r", "1", " ", "#", "2">>,
      <<"c", "m", "p", " ", "r", "0", " ", "r", "1">>,
      <<"b", "e", "q", " ", "l", "1">>,
      <<"l", "1", ":">>,
      <<"c", "m", "p", " ", "r", "0", " ", "#", "3">>,
      <<"b", "n", "e", " ", "l", "2">>,
      <<"l", "2", ":">>,
      <<"b", "g", "t", " ", "l", "3">>,
      <<"l", "3", ":">>,
      <<"b", "g", "t", "u", " ", "l", "4">>,
      <<"l", "4", ":">>,
      <<"c", "m", "p", " ", "r", "0", " ", "#", "7">>,
      <<"b", "l", "t", " ", "l", "5">>,
      <<"l", "5", ":">>,
      <<"b", "l", "t", "u", " ", "l", "6">>,
      <<"l", "6", ":">>,
      <<"m", "o", "v", " ", "l", "r", " ", "#", "2", "9">>,
      <<"r", "e", "t">>,
      <<"b", "l", "n", " ", "f", "n">>,
      <<"f", "n", ":">>,
      <<"j", "m", "p", " ", "e", "n", "d">>,
      <<"e", "n", "d", ":">>,
      <<"h", "a", "l", "t">>,
      <<".", "s", "e", "c", "t", "i", "o", "n", " ", "d", "a", "t", "a">>,
      <<"x", ":">>,
      <<"7">>,
      <<"y", ":">>,
      <<"0">>>>

\* a return to an address beyond the memory
WildReturnSource ==
    <<<<".", "s", "e", "c", "t", "i", "o", "n", " ", "c", "o", "d", "e">>,
      <<"l", "d", "a", " ", "x">>,
      <<"m", "o", "v", " ", "l", "r", " ", "m", "b", "r">>,
      <<"r", "e", "t">>,
      <<".", "s", "e", "c", "t", "i", "o", "n", " ", "d", "a", "t", "a">>,
      <<"x", ":">>,
      <<"4", "0", "0">>>>

\* a data section in front of the code: its words are executed
DataFirstSource ==
    <<<<".", "s", "e", "c", "t", "i", "o", "n", " ", "d", "a", "t", "a">>,
      <<"0", ",", " ", "-", "1">>,
      <<".", "s", "e", "c", "t", "i", "o", "n", " ", "c", "o", "d", "e">>,
      <<"h", "a", "l", "t">>>>

\* the endless loop
LoopSource ==
    <<<<".", "s", "e", "c", "t", "i", "o", "n", " ", "c", "o", "d", "e">>,
      <<"s", "t", "a", "r", "t", ":">>,
      <<"m", "o", "v", " ", "r", "0", " ", "#", "0">>,
      <<"j", "m", "p", " ", "s", "t", "a", "r", "t">>,
      <<"h", "a", "l", "t">>>>

\* a jump to a label that is not declared
UndeclaredLabelSource ==
    <<<<".", "s", "e", "c", "t", "i", "o", "n", " ", "c", "o", "d", "e">>,
      <<"j", "m", "p", " ", "n", "o", "w", "h", "e", "r", "e">>>>

\* a label with a blank in it
BlankInLabelSource ==
    <<<<".", "s", "e", "c", "t", "i", "o", "n", " ", "c", "o", "d", "e">>,
      <<"a", " ", "b", ":">>>>

\* a source without a code section
NoCodeSource ==
    <<<<".", "s", "e", "c", "t", "i", "o", "n", " ", "d", "a", "t", "a">>,
      <<"1">>>>

HaltLine == <<"h", "a", "l", "t">>

\* the immediates of the example program's first line
ExampleVals == {5, 0, -1, 127}

\* mov r0 #n, then mov r1 r0 and add r2 r0 r1
ExampleSource(n) ==
    <<SectionCode,
      <<"m", "o", "v", " ", "r", "0", " ">> \o ImmToken(n),
      <<"m", "o", "v", " ", "r", "1", " ", "r", "0">>,
      <<"a", "d", "d", " ", "r", "2", " ", "r", "0", " ", "r", "1">>,
      HaltLine>>

\* string literals: bodies of up to MaxBody characters, escapes included
MaxBody == 3

BodyChars == {"a", "\\", "n", "t"}

\* bodies that consist of escapes only
MaxEscapes == 2

Escapes == {<<"\\", "n">>, <<"\\", "t">>}

RECURSIVE EscapeBodies(_)
EscapeBodies(n) ==
    IF n = 0 THEN {<<>>}
    ELSE {e \o b : e \in Escapes, b \in EscapeBodies(n - 1)}

Bodies ==
    UNION {[1..n -> BodyChars] : n \in 0..MaxBody}
    \cup UNION {EscapeBodies(n) : n \in 1..MaxEscapes}

StringLine(body) == <<"\"">> \o body \o <<"\"">>

LiteralSource(body) == <<SectionCode, HaltLine, SectionData, StringLine(body)>>

\* numeric data lines: comma-separated pieces, some of them no i16
FirstPieces == {<<"1">>, <<"7", "0", "0", "0", "0">>, <<"1", "x">>}

Pieces ==
    FirstPieces \cup {<<"x">>, <<"-", "3">>, <<"3", "2", "7", "6", "8">>, <<>>}

NumberLines ==
    FirstPieces \cup {p \o <<",", " ">> \o q : p \in FirstPieces, q \in Pieces}

NumberSource(l) == <<SectionCode, HaltLine, SectionData, l>>

\* instruction lines followed by an inline comment of up to MaxComment
\* characters
MaxComment == 2

CommentChars == {"x", ":", " ", "/"}

CommentTexts == UNION {[1..n -> CommentChars] : n \in 0..MaxComment}

CommentedInstructions == {HaltLine, <<"m", "o", "v", " ", "r", "0", " ", "#", "1">>}

Commented(instr, text) == instr \o <<" ", "/", "/", " ">> \o text

CommentSource(instr, text) == <<SectionCode, Commented(instr, text), HaltLine>>

\* the instructions of the tour that neither branch nor halt, in the order
\* of the tour, then cmp r0 #3 and halt, and the tour's data section
StraightSource ==
    SubSeq(TourSource, 2, 21) \o <<TourSource[24], HaltLine>>
    \o SubSeq(TourSource, 43, 47)

\* the immediates of the program that moves and compares one
ImmediateVals == {-128, -1, 0, 1, 127}

\* mov r1 #v, then r1 and r0 (which holds 0) are compared with v
ImmediateSource(v) ==
    <<SectionCode,
      <<"m", "o", "v", " ", "r", "1", " ">> \o ImmToken(v),
      <<"c", "m", "p", " ", "r", "1", " ">> \o ImmToken(v),
      <<"c", "m", "p", " ", "r", "0", " ">> \o ImmToken(v),
      HaltLine>>

RunSources ==
    {TourSource, StraightSource, WildReturnSource, DataFirstSource, LoopSource,
     UndeclaredLabelSource, BlankInLabelSource, NoCodeSource}
    \cup {ExampleSource(n) : n \in ExampleVals}
    \cup {ImmediateSource(v) : v \in ImmediateVals}
    \cup {LiteralSource(b) : b \in Bodies}
    \cup {NumberSource(l) : l \in NumberLines}
    \cup {CommentSource(i, t) : i \in CommentedInstructions, t \in CommentTexts}

InitRun ==
    /\ first_run = <<>>
    /\ regs = RegistersNew
    /\ mem = <<>>
    /\ line = NoLine
    /\ bytes = NoBytes
    /\ status = "first_pass"
    /\ source \in RunSources
    /\ symbols = SymbolsNew
    /\ address = 0
    /\ line_idx = 0
    /\ out_file = FormerContents

\* the emulator is started on the image: main declares the registers and
\* load_program reads the file into the memory
LoadProgram ==
    /\ status = "done"
    /\ regs' = RegistersNew
    /\ mem' = load_program(out_file)
    /\ status' = "running"
    /\ UNCHANGED <<line, bytes, asm_vars>>

NextRun ==
    \/ NextAsm
    \/ LoadProgram
    \/ Next

SpecRun == InitRun /\ [][NextRun]_vars

\* the emulator's loop has no exit but halt and a panic: as long as an
\* iteration can be taken, it is taken
SpecRunFair == SpecRun /\ WF_vars(Next)


(***************************************************************************)
(* The assembler on sources with more than 2047 words in front of a label: *)
(* thirty-two string literals of about 64 words each in the data section,  *)
(* then a label and one instruction that names it.                         *)
(***************************************************************************)
\* a string literal of n letters: n + 1 words
LongLiteral(n) == StringLine([i \in 1..n |-> "a"])

BigLabel == <<"b", "i", "g">>

\* the mnemonics of the instruction that names the label
LongMnemonics == {<<"l", "d", "a">>, <<"b", "l", "n">>, <<"j", "m", "p">>}

\* thirty-one literals of 64 words, one of n + 1 words, the label big and
\* the instruction m big
LongSource(n, m) ==
    <<<<"/", "/">>, SectionData>>
    \o [i \in 1..31 |-> LongLiteral(63)]
    \o <<LongLiteral(n), SectionCode, BigLabel \o <<":">>, m \o <<" ">> \o BigLabel>>

LongSources ==
    {LongSource(n, m) : n \in 60..66, m \in LongMnemonics}
    \cup {BlankInLabelSource, UndeclaredLabelSource, NoCodeSource}

InitLong ==
    /\ first_run = <<>>
    /\ regs = RegistersNew
    /\ mem = <<>>
    /\ line = NoLine
    /\ bytes = NoBytes
    /\ status = "first_pass"
    /\ source \in LongSources
    /\ symbols = SymbolsNew
    /\ address = 0
    /\ line_idx = 0
    /\ out_file = FormerContents

SpecLong == InitLong /\ [][NextAsm]_vars


(***************************************************************************)
(* Properties of the emulator's instructions.  A step taken from a state   *)
(* where Decoded(op) holds is the execution of an instruction with opcode  *)
(* op; its word is fetch(regs.pc, mem).                                    *)
(***************************************************************************)
\* the word about to be executed, and its fields
Word == fetch(regs.pc, mem)

RegField(w, i) ==
    extract_bits(w, REG_ADDR_SIZE, REG_POS0_ROFFSET + (REG_ADDR_SIZE * i))

LabelField(w) == extract_bits(w, MEM_LABEL_SIZE, MEM_LABEL_ROFFSET)

InI16(x) == x >= -32768 /\ x <= 32767

CondBranches == {Beq, Bne, Bgt, Bgtu, Blt, Bltu}

\* the flag predicate of each conditional branch
BranchPredicate(op, r) ==
    CASE op = Beq -> read_flag(r, ZR)
      [] op = Bne -> ~read_flag(r, ZR)
      [] op = Bgt -> read_flag(r, NG) = read_flag(r, OV)
      [] op = Bgtu -> read_flag(r, CA) /\ ~read_flag(r, ZR)
      [] op = Blt -> read_flag(r, NG) # read_flag(r, OV)
      [] op = Bltu -> ~read_flag(r, CA)

(* C1: when a conditional branch (beq, bne, bgt, bgtu, blt, bltu) is       *)
(* executed and its flag predicate is false the next pc is pc + 1; when    *)
(* the predicate is true the next pc is the 11-bit label field.            *)
C1_CondBranchNextPc ==
    [][\A op \in CondBranches :
          Decoded(op) =>
              regs'.pc = IF BranchPredicate(op, regs)
                         THEN LabelField(Word)
                         ELSE AsU16(regs.pc + 1)]_vars

\* the register lists of the push and pop lines of the images
StackRegs == {<<"r", "1">>, <<"r", "2">>, <<"r", "3">>, <<"r", "4">>}

StackArgs ==
    {<<a>> : a \in StackRegs}
    \cup {<<a, b>> : a \in StackRegs, b \in StackRegs}
    \cup {<<a, b, c>> : a \in StackRegs, b \in StackRegs, c \in StackRegs}

\* the 16-bit word of an encoder's two bytes
WordOf(res) == res.val[1] * 256 + res.val[2]

\* pushing the registers rs[i], rs[i+1], ...: each push decrements sp and
\* then writes the register to mem[sp]
RECURSIVE PushAll(_, _, _, _)
PushAll(gp, m, rs, i) ==
    IF i > Len(rs) THEN <<gp, m>>
    ELSE LET sp == gp[SP_PTR] - 1
         IN PushAll([gp EXCEPT ![SP_PTR] = sp],
                    [m EXCEPT ![sp] = AsU16(gp[REGISTERS[rs[i]]])], rs, i + 1)

\* popping into the registers rs[i], rs[i+1], ...: each pop reads mem[sp]
\* into the register and then increments sp
RECURSIVE PopAll(_, _, _, _)
PopAll(gp, m, rs, i) ==
    IF i > Len(rs) THEN <<gp, m>>
    ELSE LET g1 == [gp EXCEPT ![REGISTERS[rs[i]]] = AsI16(m[gp[SP_PTR]])]
         IN PopAll([g1 EXCEPT ![SP_PTR] = g1[SP_PTR] + 1], m, rs, i + 1)

(* C2: executing the word the assembler emits for push with k listed       *)
(* registers performs k pushes in the listed order, and executing the word *)
(* emitted for pop with k registers performs k pops.                       *)
C2_PushPopConventionsAgree ==
    [][/\ Decoded(Push) =>
            \A args \in StackArgs :
                (/\ WordOf(push_enc(args, SymbolsNew, 0)) = Word
                 /\ (regs.gp[SP_PTR] - Len(args)) \in DOMAIN mem
                 /\ (regs.gp[SP_PTR] - 1) \in DOMAIN mem)
                => <<regs'.gp, mem'>> = PushAll(regs.gp, mem, args, 1)
       /\ Decoded(Pop) =>
            \A args \in StackArgs :
                (/\ WordOf(pop_enc(args, SymbolsNew, 0)) = Word
                 /\ regs.gp[SP_PTR] \in DOMAIN mem
                 /\ (regs.gp[SP_PTR] + Len(args) - 1) \in DOMAIN mem)
                => <<regs'.gp, mem'>> = PopAll(regs.gp, mem, args, 1)]_vars

\* the integer an immediate token was written from
ImmValue(tok) == CHOOSE n \in EncImms : ImmToken(n) = tok

\* the (size, right_offset) constants the emulator reads the immediate of
\* each mnemonic with
ImmField(m) ==
    IF m \in ImmMnemonics2 THEN <<B8_CONSTANT_SIZE, B8_CONSTANT_ROFFSET>>
    ELSE IF m \in MemMnemonics THEN <<MEM_OFFSET_SIZE, MEM_OFFSET_ROFFSET>>
    ELSE IF m \in {<<"s", "h", "l">>, <<"s", "h", "r">>}
    THEN <<B4_CONSTANT_SIZE, B4_CONSTANT_ROFFSET>>
    ELSE <<B5_CONSTANT_SIZE, B5_CONSTANT_ROFFSET>>

\* a register argument without the & of an address operand
RegName(a) == IF starts_with(a, <<"&">>) THEN Tail(a) ELSE a

(* C3: for every accepted line, extracting each operand from the emitted   *)
(* word with extract_bits and the opcode's (size, right_offset) constants  *)
(* yields the original register indices exactly, the original immediate    *)
(* modulo 2^width of its field, and the address of the label.              *)
C3_EncodeDecodeInversion ==
    (status = "assembled" /\ bytes.ok) =>
        \A i \in 1..Len(line.args) :
            LET a == line.args[i]
                w == WordOf(bytes)
            IN IF starts_with(a, <<"#">>)
               THEN extract_bits(w, ImmField(line.m)[1], ImmField(line.m)[2])
                        = ImmValue(a) % (2 ^ ImmField(line.m)[1])
               ELSE IF RegName(a) \in DOMAIN REGISTERS
               THEN RegField(w, i - 1) = REGISTERS[RegName(a)]
               ELSE LabelField(w) = EncSyms.labels[a]

OperandA(i) == regs.gp[RegField(Word, i)]

OperandB(im, i) ==
    IF Decoded(im)
    THEN extract_bits(Word, B5_CONSTANT_SIZE, B5_CONSTANT_ROFFSET)
    ELSE regs.gp[RegField(Word, i)]

(* C5: after every add (immediate or register form), whatever the flags    *)
(* were before: without overflow the destination holds the sum, OV = 0,    *)
(* CA = 0, ZR = (sum = 0) and NG = (sum < 0); on overflow OV = 1 and       *)
(* CA = 1.                                                                 *)
C5_AddResultAndFlags ==
    [][(Decoded(AddIm) \/ Decoded(AddRg)) =>
          LET sum == OperandA(1) + OperandB(AddIm, 2)
          IN IF InI16(sum)
             THEN /\ regs'.gp[RegField(Word, 0)] = sum
                  /\ ~read_flag(regs', OV)
                  /\ ~read_flag(regs', CA)
                  /\ read_flag(regs', ZR) = (sum = 0)
                  /\ read_flag(regs', NG) = (sum < 0)
             ELSE read_flag(regs', OV) /\ read_flag(regs', CA)]_vars

(* C6: after every shl, shr, and, or, not, whatever the flags were before: *)
(* OV = 0, CA = 0, ZR = (result = 0) and NG = (result < 0), the result     *)
(* being the value written to the destination register.                    *)
C6_LogicFlags ==
    [][(\E op \in {ShftL, ShftR, And, Or, Not} : Decoded(op)) =>
          LET result == regs'.gp[RegField(Word, 0)]
          IN /\ ~read_flag(regs', OV)
             /\ ~read_flag(regs', CA)
             /\ read_flag(regs', ZR) = (result = 0)
             /\ read_flag(regs', NG) = (result < 0)]_vars

(* C7: after every sub (immediate or register form) that does not          *)
(* overflow, whatever the flags were before: the destination holds the     *)
(* signed 16-bit difference, OV = 0, ZR = (result = 0), NG = (result < 0)  *)
(* and CA = (result >= 0).                                                 *)
C7_SubResultAndFlags ==
    [][(Decoded(SubIm) \/ Decoded(SubRg)) =>
          LET diff == OperandA(1) - OperandB(SubIm, 2)
          IN InI16(diff) =>
                /\ regs'.gp[RegField(Word, 0)] = diff
                /\ ~read_flag(regs', OV)
                /\ read_flag(regs', ZR) = (diff = 0)
                /\ read_flag(regs', NG) = (diff < 0)
                /\ read_flag(regs', CA) = (diff >= 0)]_vars

\* a sub has just left a negative difference in its destination
C7_NegativeDifference ==
    /\ status = "running"
    /\ decode(regs.ir) \in {SubIm, SubRg}
    /\ regs.gp[RegField(regs.ir, 0)] < 0
    /\ ~read_flag(regs, OV)
    /\ read_flag(regs, NG)
    /\ ~read_flag(regs, CA)

(* C8: when add or sub (either form) overflows signed 16-bit, emulation    *)
(* continues with pc + 1, OV is set (and CA too for add), every general-   *)
(* purpose register, the destination included, and every memory word are   *)
(* unchanged, and ZR and NG keep their previous values.                    *)
C8_OverflowPreservesState ==
    [][/\ (Decoded(AddIm) \/ Decoded(AddRg))
            /\ ~InI16(OperandA(1) + OperandB(AddIm, 2))
          => /\ read_flag(regs', OV) /\ read_flag(regs', CA)
             /\ regs'.pc = regs.pc + 1 /\ status' = "running"
             /\ regs'.gp = regs.gp /\ mem' = mem
             /\ read_flag(regs', ZR) = read_flag(regs, ZR)
             /\ read_flag(regs', NG) = read_flag(regs, NG)
       /\ (Decoded(SubIm) \/ Decoded(SubRg))
            /\ ~InI16(OperandA(1) - OperandB(SubIm, 2))
          => /\ read_flag(regs', OV)
             /\ regs'.pc = regs.pc + 1 /\ status' = "running"
             /\ regs'.gp = regs.gp /\ mem' = mem
             /\ read_flag(regs', ZR) = read_flag(regs, ZR)
             /\ read_flag(regs', NG) = read_flag(regs, NG)]_vars

\* an add has just overflowed with ZR still set by the instruction before
C8_OverflowedAdd ==
    /\ status = "running"
    /\ decode(regs.ir) = AddRg
    /\ read_flag(regs, OV)
    /\ read_flag(regs, CA)
    /\ read_flag(regs, ZR)
    /\ regs.gp[RegField(regs.ir, 0)] = 0

\* the flags a sub of the operand values a and b leaves, started from the
\* register file r: sub r0 r1 r2 run with r1 = a and r2 = b
FlagsOfSub(r, a, b) ==
    sub_rg([r EXCEPT !.gp = [i \in 0..(REG_TOTAL_NUM - 1) |->
                                 IF i = 1 THEN a ELSE IF i = 2 THEN b ELSE 0],
                     !.ir = WordOf(Ok(encode(T4(SubRg, 0, 1, 2))))]).flags

(* C9: cmp (immediate or register form) writes no general-purpose register *)
(* and no memory word, and leaves the four flags exactly as a sub of the   *)
(* same two operand values leaves them, with and without overflow.         *)
C9_CmpFlagsAsSub ==
    [][(Decoded(CmpIm) \/ Decoded(CmpRg)) =>
          LET a == OperandA(0)
              b == IF Decoded(CmpIm)
                   THEN extract_bits(Word, B8_CONSTANT_SIZE, B8_CONSTANT_ROFFSET)
                   ELSE regs.gp[RegField(Word, 1)]
          IN /\ regs'.gp = regs.gp
             /\ mem' = mem
             /\ regs'.flags = FlagsOfSub(regs, a, b)]_vars

\* a cmp of two registers has just overflowed
C9_OverflowedCmp ==
    /\ status = "running"
    /\ decode(regs.ir) = CmpRg
    /\ read_flag(regs, OV)
    /\ ~InI16(regs.gp[RegField(regs.ir, 0)] - regs.gp[RegField(regs.ir, 1)])

(* C10: shl and shr are logical shifts by the 4-bit immediate n: shr       *)
(* writes (v read as unsigned 16-bit) >> n with zero fill from the left,   *)
(* and shl writes (v << n) mod 2^16.                                       *)
C10_LogicalShifts ==
    [][LET v == regs.gp[RegField(Word, 1)]
           n == extract_bits(Word, B4_CONSTANT_SIZE, B4_CONSTANT_ROFFSET)
           written == AsU16(regs'.gp[RegField(Word, 0)])
       IN /\ Decoded(ShftR) => written = AsU16(v) \div (2 ^ n)
          /\ Decoded(ShftL) => written = (AsU16(v) * (2 ^ n)) % 65536]_vars

(* C11: each conditional branch is taken exactly when its predicate over   *)
(* the current flags holds (beq: ZR; bne: not ZR; bgt: NG = OV; bgtu: CA   *)
(* and not ZR; blt: NG # OV; bltu: not CA): the instruction assigns the    *)
(* label field to pc when it holds and leaves pc alone when it does not;   *)
(* and it changes no flag, register or memory word other than pc.          *)
C11_BranchTakenIffPredicate ==
    [][\A op \in CondBranches :
          Decoded(op) =>
              /\ regs'.pc = IF BranchPredicate(op, regs)
                            THEN LabelField(Word) ELSE regs.pc
              /\ regs'.flags = regs.flags
              /\ regs'.gp = regs.gp
              /\ regs'.acc = regs.acc
              /\ regs'.mar = regs.mar
              /\ mem' = mem]_vars

\* a bgtu has just been taken, away from its own address, on CA and not ZR
C11_TakenBgtu ==
    /\ status = "running"
    /\ decode(regs.ir) = Bgtu
    /\ regs.pc = LabelField(regs.ir)
    /\ regs.pc \in DOMAIN mem
    /\ decode(Word) # Bgtu
    /\ read_flag(regs, CA)
    /\ ~read_flag(regs, ZR)

BranchFamily == {Jmp, Bln, Ret} \cup CondBranches

(* C12: for every opcode outside the branch family {jmp, bln, ret, beq,    *)
(* bne, bgt, bgtu, blt, bltu} and other than halt, an interpreter step     *)
(* that completes ends with pc = old pc + 1 (a step that does not complete *)
(* is a panic); for halt the loop terminates with pc, all registers, the   *)
(* flags and memory unchanged by the halt step.                            *)
C12_PcIncrementAndHalt ==
    [][/\ \A op \in (0..Halt) \ (BranchFamily \cup {Halt}) :
            Decoded(op) =>
                \/ status' = "running" /\ regs'.pc = regs.pc + 1
                \/ status' = "panicked"
       /\ Decoded(Halt) =>
            /\ status' = "halted"
            /\ regs'.pc = regs.pc
            /\ regs'.gp = regs.gp
            /\ regs'.flags = regs.flags
            /\ regs'.acc = regs.acc
            /\ regs'.mar = regs.mar
            /\ mem' = mem]_vars

\* the loop has left on the halt that follows mov r4 #1
C12_Halted ==
    /\ status = "halted"
    /\ decode(regs.ir) = Halt
    /\ regs.gp[4] = 1
    /\ regs.pc \in DOMAIN mem
    /\ Word = regs.ir

\* the opcodes in the order of the mnemonic table: mov (immediate,
\* register), lda, ldr, stra, strr, push, pop, add, sub, shl, shr, and, or,
\* not, jmp, bln, ret, cmp, beq, bne, bgt, bgtu, blt, bltu, halt
OpcodeTable ==
    <<MovIm, MovRg, Load, LoadRg, Store, StrRg, Push, Pop, AddIm, AddRg,
      SubIm, SubRg, ShftL, ShftR, And, Or, Not, Jmp, Bln, Ret, CmpIm, CmpRg,
      Beq, Bne, Bgt, Bgtu, Blt, Bltu, Halt>>

\* the top 5 bits of a 16-bit word
TopBits(w) == w \div 2048

RamIndexes == 0..(CODE_SECTION_LENGTH + STACK_LENGTH - 1)

\* the number of registers a push or pop word names
StackNum(w) == extract_bits(w, PUSHPOP_NUM_SIZE, PUSHPOP_NUM_ROFFSET)

\* the registers a pop word names in its first k fields
PopTargets(w, k) == {RegField(w, i) : i \in 0..(k - 1)}

\* the step stops the emulation and leaves every word of RAM and every
\* register as it was
AbortsUntouched ==
    /\ status' = "panicked"
    /\ mem' = mem
    /\ regs'.gp = regs.gp

(* C14: RAM always has exactly 350 words; an access by fetch, lda, stra,   *)
(* ldr, strr, push or pop whose index lies outside 0..349 (a negative sp   *)
(* included) stops the emulation and reads or writes no word: a push       *)
(* changes only the words of the accesses before the failing one.          *)
C14_OutOfRangeAccessAborts ==
    [][/\ DOMAIN mem = RamIndexes /\ DOMAIN mem' = RamIndexes
       /\ (status = "running" /\ regs.pc \notin RamIndexes) =>
             status' = "panicked" /\ mem' = mem /\ regs' = regs
       /\ (Decoded(Load) /\ LabelField(Word) \notin RamIndexes) => AbortsUntouched
       /\ (Decoded(Store) /\ LabelField(Word) \notin RamIndexes) => AbortsUntouched
       /\ \A op \in {LoadRg, StrRg} :
             (Decoded(op) /\ (RegField(Word, 1)
                            + extract_bits(Word, MEM_OFFSET_SIZE, MEM_OFFSET_ROFFSET))
                              \notin RamIndexes)
                => AbortsUntouched
       /\ \A k \in 1..3 :
             (/\ Decoded(Push)
              /\ k <= StackNum(Word)
              /\ (regs.gp[SP_PTR] - k) \notin RamIndexes
              /\ \A j \in 1..(k - 1) : (regs.gp[SP_PTR] - j) \in RamIndexes)
             => /\ status' = "panicked"
                /\ \A a \in RamIndexes :
                      mem'[a] # mem[a] =>
                         a \in {regs.gp[SP_PTR] - j : j \in 1..(k - 1)}
       /\ \A k \in 0..2 :
             (/\ Decoded(Pop)
              /\ k < StackNum(Word)
              /\ SP_PTR \notin PopTargets(Word, k)
              /\ (regs.gp[SP_PTR] + k) \notin RamIndexes)
             => status' = "panicked" /\ mem' = mem]_vars

\* a push has stopped the emulation on a stack pointer below zero
C14_PushBelowZero ==
    /\ status = "panicked"
    /\ regs.pc \in DOMAIN mem
    /\ Word = regs.ir
    /\ decode(regs.ir) = Push
    /\ StackNum(regs.ir) >= 1
    /\ regs.gp[SP_PTR] < 0

\* the opcodes of mov (both forms), lda, ldr, stra and strr
MoveFamily == {MovIm, MovRg, Load, LoadRg, Store, StrRg}

(* C15: mov (immediate and register form), lda, ldr, stra and strr never   *)
(* change the flags byte.                                                  *)
C15_MovesKeepFlags ==
    [][\A op \in MoveFamily : Decoded(op) => regs'.flags = regs.flags]_vars

\* a store through a register has run while flags were set
C15_StoredWithFlagsSet ==
    /\ status = "running"
    /\ decode(regs.ir) = StrRg
    /\ regs.flags # 0
    /\ (regs.pc - 1) \in DOMAIN mem
    /\ mem[regs.pc - 1] = regs.ir

\* the last argument of the line is an immediate
ImmVariant(l) ==
    Len(l.args) > 0 /\ starts_with(l.args[Len(l.args)], <<"#">>)

\* the opcode the mnemonic table declares for a line's mnemonic and variant
DeclaredOpcode(l) ==
    LET m == l.m
    IN CASE m = <<"m", "o", "v">> -> IF ImmVariant(l) THEN MovIm ELSE MovRg
         [] m = <<"l", "d", "a">> -> Load
         [] m = <<"l", "d", "r">> -> LoadRg
         [] m = <<"s", "t", "r", "a">> -> Store
         [] m = <<"s", "t", "r", "r">> -> StrRg
         [] m = <<"p", "u", "s", "h">> -> Push
         [] m = <<"p", "o", "p">> -> Pop
         [] m = <<"a", "d", "d">> -> IF ImmVariant(l) THEN AddIm ELSE AddRg
         [] m = <<"s", "u", "b">> -> IF ImmVariant(l) THEN SubIm ELSE SubRg
         [] m = <<"s", "h", "l">> -> ShftL
         [] m = <<"s", "h", "r">> -> ShftR
         [] m = <<"a", "n", "d">> -> And
         [] m = <<"o", "r">> -> Or
         [] m = <<"n", "o", "t">> -> Not
         [] m = <<"j", "m", "p">> -> Jmp
         [] m = <<"b", "l", "n">> -> Bln
         [] m = <<"r", "e", "t">> -> Ret
         [] m = <<"c", "m", "p">> -> IF ImmVariant(l) THEN CmpIm ELSE CmpRg
         [] m = <<"b", "e", "q">> -> Beq
         [] m = <<"b", "n", "e">> -> Bne
         [] m = <<"b", "g", "t">> -> Bgt
         [] m = <<"b", "g", "t", "u">> -> Bgtu
         [] m = <<"b", "l", "t">> -> Blt
         [] m = <<"b", "l", "t", "u">> -> Bltu
         [] m = <<"h", "a", "l", "t">> -> Halt

(* C16: for every instruction the assembler encodes successfully, the top  *)
(* 5 bits of the emitted word equal the opcode declared for the mnemonic   *)
(* and variant, for every accepted operand value.                          *)
C16_EmittedOpcode ==
    (status = "assembled" /\ bytes.ok) =>
        TopBits(WordOf(bytes)) = DeclaredOpcode(line)

(***************************************************************************)
(* Properties of the assembler's two passes.  Line indexes count from 0,   *)
(* as line_idx does; the line at index i is source[i + 1].                 *)
(***************************************************************************)
LineIndexes == 0..(Len(source) - 1)

\* the content of the line at index i, when the line parses
ContentAt(i) == parse_line(source[i + 1], i)

IsKind(i, kind) == ContentAt(i).ok /\ ContentAt(i).val.kind = kind

\* the first pass has returned Ok
FirstPassOk == status = "first_pass_ok"

\* the words of the data lines among the given line indexes
RECURSIVE DataWords(_)
DataWords(idxs) ==
    IF idxs = {} THEN 0
    ELSE LET i == CHOOSE j \in idxs : TRUE
         IN (IF IsKind(i, "Data") THEN Len(ContentAt(i).val.d) \div 2 ELSE 0)
            + DataWords(idxs \ {i})

\* the instruction lines among the given line indexes
InstructionLines(idxs) == {j \in idxs : IsKind(j, "Instruction")}

(* C17: after a successful first pass, the address of every label declared *)
(* in the code section is the number of instruction lines that precede the *)
(* label's line within the code section, wherever the sections and lines   *)
(* are placed; the address of a label of the data section is the number of *)
(* instruction lines of the code section plus the data words before it in  *)
(* the data section.                                                       *)
C17_LabelAddresses ==
    FirstPassOk =>
        \A i \in LineIndexes :
            IsKind(i, "Label") =>
                /\ InCode(i) =>
                      symbols.labels[ContentAt(i).val.name]
                          = Cardinality(InstructionLines(
                                {j \in LineIndexes : InCode(j) /\ j < i}))
                /\ InData(i) =>
                      symbols.labels[ContentAt(i).val.name]
                          = Cardinality(InstructionLines(
                                {j \in LineIndexes : InCode(j)}))
                            + DataWords({j \in LineIndexes : InData(j) /\ j < i})

\* a section declaration, as text: a line that begins with .section
DeclaresSection(text) ==
    starts_with(trim(text), <<".", "s", "e", "c", "t", "i", "o", "n">>)

DeclaresCode(text) ==
    /\ DeclaresSection(text)
    /\ contains(text, <<"C", "o", "d", "e">>) \/ contains(text, <<"c", "o", "d", "e">>)

DeclaresData(text) ==
    /\ DeclaresSection(text)
    /\ ~DeclaresCode(text)
    /\ contains(text, <<"D", "a", "t", "a">>) \/ contains(text, <<"d", "a", "t", "a">>)

CodeDecls == {i \in LineIndexes : DeclaresCode(source[i + 1])}

DataDecls == {i \in LineIndexes : DeclaresData(source[i + 1])}

(* C18: every source without a code-section declaration fails the first    *)
(* pass; when the pass reads to the end of such a source, the error is      *)
(* NoSectionDecl if the source declares no section at all (the empty        *)
(* source included) and OnlyDataSection if it declares one or more data     *)
(* sections.                                                                *)
C18_NoCodeSectionFails ==
    (status # "first_pass" /\ CodeDecls = {}) =>
        /\ status = "failed_first"
        /\ line_idx = Len(source) =>
              bytes.kind = IF DataDecls = {} THEN "NoSectionDecl"
                           ELSE "OnlyDataSection"

(* C19: for a source of N lines with exactly two section declarations of   *)
(* different kinds at line indexes s1 < s2, the first pass yields          *)
(* [s1, s2) for the section declared first and [s2, N) for the section     *)
(* declared second, in either order of code and data; with a single code   *)
(* declaration at s1 it yields code_range = [s1, N) and no data range.     *)
C19_SectionRanges ==
    FirstPassOk =>
        LET N == Len(source)
        IN /\ \A s1 \in LineIndexes, s2 \in LineIndexes :
                 /\ (CodeDecls = {s1} /\ DataDecls = {s2} /\ s1 < s2) =>
                       /\ code_range(symbols) = Some(<<s1, s2>>)
                       /\ data_range(symbols) = Some(<<s2, N>>)
                 /\ (DataDecls = {s1} /\ CodeDecls = {s2} /\ s1 < s2) =>
                       /\ data_range(symbols) = Some(<<s1, s2>>)
                       /\ code_range(symbols) = Some(<<s2, N>>)
           /\ \A s1 \in LineIndexes :
                 (CodeDecls = {s1} /\ DataDecls = {}) =>
                    /\ code_range(symbols) = Some(<<s1, N>>)
                    /\ data_range(symbols) = None

\* the first pass has succeeded on four lines that declare the data
\* section at index 1 and the code section at index 3
C19_DataDeclaredFirst ==
    /\ FirstPassOk
    /\ Len(source) = 4
    /\ DataDecls = {1}
    /\ CodeDecls = {3}

(* C20: if the second pass returns an error at any line, the output file   *)
(* holds no bytes written by that run and keeps the contents it had        *)
(* before; it is overwritten only when the whole assembly succeeds.        *)
C20_OutputKeptOnError ==
    /\ status = "failed_second" => out_file = FormerContents
    /\ out_file # FormerContents => status \in {"second_pass", "done"}

\* the bytes the claim expects of the lines from index i on: one MSB-first
\* word per instruction line of the code range, the bytes of each data
\* line of the data range
RECURSIVE ExpectedOutput(_)
ExpectedOutput(i) ==
    IF i >= Len(source) THEN <<>>
    ELSE (IF InCode(i) /\ IsKind(i, "Instruction")
          THEN MNEMONICS_call(ContentAt(i).val.m,
                              trim_comments(ContentAt(i).val.args), symbols, i).val
          ELSE IF InData(i) /\ IsKind(i, "Data") THEN ContentAt(i).val.d
          ELSE <<>>)
         \o ExpectedOutput(i + 1)

\* the data bytes of the data lines among the given line indexes
DataBytes(idxs) == 2 * DataWords(idxs)

(* C24: for every source that assembles successfully, the output is the    *)
(* concatenation, in source line order, of one 2-byte word per instruction *)
(* line inside the code range and the bytes of each data line inside the   *)
(* data range; its length is 2 x (instructions in the code range) + (data  *)
(* bytes in the data range), with no header or trailer.                    *)
C24_OutputIsConcatenation ==
    status = "done" =>
        /\ out_file = ExpectedOutput(0)
        /\ Len(out_file)
              = 2 * Cardinality(InstructionLines({j \in LineIndexes : InCode(j)}))
                + DataBytes({j \in LineIndexes : InData(j)})

\* an assembly has succeeded that wrote an instruction and then two data
\* words
C24_CodeThenData ==
    /\ status = "done"
    /\ Len(out_file) = 6
    /\ \E i \in LineIndexes : InCode(i) /\ IsKind(i, "Instruction")
    /\ \E i \in LineIndexes : InData(i) /\ IsKind(i, "Data")

\* the step returns SectionMismatch for the line at line_idx and writes
\* nothing
ReturnsSectionMismatch ==
    /\ status' = "failed_second"
    /\ bytes'.kind = "SectionMismatch"
    /\ bytes'.line = line_idx
    /\ out_file' = out_file

(* C25: in the second pass a data literal line inside the code range and   *)
(* an instruction line inside the data range each make the pass return     *)
(* SectionMismatch with that line's index; label, section and blank lines  *)
(* inside either range emit nothing and raise no error.                    *)
C25_SectionMismatch ==
    [][(status = "second_pass" /\ line_idx < Len(source)) =>
          /\ (InCode(line_idx) /\ IsKind(line_idx, "Data")) => ReturnsSectionMismatch
          /\ (InData(line_idx) /\ IsKind(line_idx, "Instruction")) =>
                ReturnsSectionMismatch
          /\ (/\ InCode(line_idx) \/ InData(line_idx)
              /\ \E k \in {"Label", "Section", "NonRelevant"} : IsKind(line_idx, k))
             => /\ status' = "second_pass"
                /\ line_idx' = line_idx + 1
                /\ out_file' = out_file]_vars

\* the second pass has stopped on an instruction of the data section
C25_InstructionInData ==
    /\ status = "failed_second"
    /\ bytes.kind = "SectionMismatch"
    /\ InData(line_idx)
    /\ IsKind(line_idx, "Instruction")

\* the label name declared by the line at index i
LabelAt(i) == ContentAt(i).val.name

\* the line at index i declares a label that an earlier line declares too
DeclaredBefore(i) ==
    /\ IsKind(i, "Label")
    /\ \E j \in LineIndexes : j < i /\ IsKind(j, "Label") /\ LabelAt(j) = LabelAt(i)

(* C26: label names are unique across the whole program: when the first    *)
(* pass reads a second declaration of a label name, in the same or in       *)
(* another section, it returns LabelMultiple with that line's index, and    *)
(* it never returns a symbol table for a source with a duplicated label.    *)
C26_LabelMultiple ==
    [][/\ (status = "first_pass" /\ line_idx < Len(source) /\ DeclaredBefore(line_idx))
          => /\ status' = "failed_first"
             /\ bytes'.kind = "LabelMultiple"
             /\ bytes'.line = line_idx
       /\ status' = "first_pass_ok" =>
             \A i \in LineIndexes : ~DeclaredBefore(i)]_vars

\* the first pass has stopped on a label of the data section that the code
\* section declares too
C26_DuplicateAcrossSections ==
    /\ status = "failed_first"
    /\ bytes.kind = "LabelMultiple"
    /\ line_idx = 3
    /\ DeclaredBefore(3)
    /\ DeclaresCode(source[1])
    /\ IsKind(1, "Label")
    /\ DeclaresData(source[3])

\* the argument counts the encoders accept (check_args_len in each of them)
ArgCountOk(m, n) ==
    IF m \in {<<"m", "o", "v">>, <<"c", "m", "p">>, <<"n", "o", "t">>} THEN n = 2
    ELSE IF m \in MemMnemonics THEN n \in {2, 3}
    ELSE IF m \in StackMnemonics THEN n \in 1..3
    ELSE IF m \in ImmMnemonics3 \cup RegMnemonics3 THEN n = 3
    ELSE IF m \in LabelMnemonics THEN n = 1
    ELSE n = 0

\* the mnemonics whose final operand is an immediate or a register
FinalOperandMnemonics ==
    {<<"m", "o", "v">>, <<"c", "m", "p">>, <<"a", "d", "d">>, <<"s", "u", "b">>}

\* argument i of the line is in a register position
RegisterPosition(m, args, i) ==
    IF m \in FinalOperandMnemonics
    THEN i < Len(args) \/ ~starts_with(args[i], <<"#">>)
    ELSE IF m \in {<<"s", "h", "l">>, <<"s", "h", "r">>} THEN i \in {1, 2}
    ELSE IF m \in MemMnemonics THEN i = 1 \/ (i = 2 /\ starts_with(args[2], <<"&">>))
    ELSE m \in StackMnemonics \cup {<<"a", "n", "d">>, <<"o", "r">>, <<"n", "o", "t">>}

\* the register name an operand gives: an address operand without its '&'
RegisterToken(m, args, i) ==
    IF m \in MemMnemonics /\ i = 2 THEN Tail(args[2]) ELSE args[i]

\* the operands in a register position that name no register
BadRegisterOperands(m, args) ==
    {i \in 1..Len(args) :
        RegisterPosition(m, args, i) /\ RegisterToken(m, args, i) \notin DOMAIN REGISTERS}

\* the leftmost operand the encoder gets to is such an operand
FirstBad(m, args) ==
    CHOOSE i \in BadRegisterOperands(m, args) :
        \A j \in BadRegisterOperands(m, args) : i <= j

\* C27: the encoders validate the argument count first, so a wrong count
\* yields WrongArgs whatever the operands are; with a right count, an
\* operand in a register position that names no register, and for mov, add,
\* sub and cmp a final operand that neither starts with '#' nor names a
\* register, yields Unrecognized carrying that token (the first such operand
\* from the left; the address operand of ldr and strr without its '&'); in
\* all these cases no bytes are produced
C27_OperandErrors ==
    (status = "assembled" /\ line.m \in MNEMONICS) =>
        /\ ~ArgCountOk(line.m, Len(line.args)) =>
              /\ ~bytes.ok
              /\ bytes.kind = "WrongArgs"
              /\ bytes.val = <<>>
        /\ (/\ ArgCountOk(line.m, Len(line.args))
            /\ BadRegisterOperands(line.m, line.args) # {}
            /\ (line.m \in MemMnemonics /\ ~starts_with(line.args[2], <<"&">>)
                   => FirstBad(line.m, line.args) = 1)) =>
              /\ ~bytes.ok
              /\ bytes.kind = "Unrecognized"
              /\ bytes.tok = RegisterToken(line.m, line.args, FirstBad(line.m, line.args))
              /\ bytes.val = <<>>

\* add r0 r0 42 was rejected for its final operand
C27_FinalOperandRejected ==
    /\ status = "assembled"
    /\ line = [m |-> <<"a", "d", "d">>, args |-> <<<<"r", "0">>, <<"r", "0">>, <<"4", "2">>>>]
    /\ bytes.kind = "Unrecognized"
    /\ bytes.tok = <<"4", "2">>

\* the line about to be read by the pass that is running
CurrentLine == source[line_idx + 1]

ReadingLine == status \in {"first_pass", "second_pass"} /\ line_idx < Len(source)

\* the line begins with an ASCII digit and one of its comma-separated
\* pieces does not parse as an i16
MalformedNumberLine(l) ==
    /\ trim(l) # <<>>
    /\ Head(trim(l)) \in DOMAIN DigitVal
    /\ \E i \in 1..Len(split(trim(l), ",")) :
           parse_int(trim(split(trim(l), ",")[i]), -32768, 32767) = None

\* C21: a numeric data line with a piece that does not parse as an i16
\* makes the pass that processes it return an error, and no word is
\* emitted for the line
C21_MalformedNumberAborts ==
    [][(ReadingLine /\ MalformedNumberLine(CurrentLine)) =>
          /\ status = "first_pass" => status' = "failed_first"
          /\ status = "second_pass" =>
                 status' = "failed_second" /\ out_file' = out_file]_vars

\* the bytes a string literal's body stands for: \n is one byte 0x0A, \t
\* one byte 0x09, every other character its ASCII code
RECURSIVE EscapedBytes(_)
EscapedBytes(body) ==
    IF body = <<>> THEN <<>>
    ELSE IF Len(body) >= 2 /\ body[1] = "\\" /\ body[2] \in {"n", "t"}
    THEN <<IF body[2] = "n" THEN 10 ELSE 9>> \o EscapedBytes(SubSeq(body, 3, Len(body)))
    ELSE <<as_byte(body[1])>> \o EscapedBytes(Tail(body))

\* one word per byte, MSB first: the high byte of each is 0
RECURSIVE WordsOfBytes(_)
WordsOfBytes(bs) ==
    IF bs = <<>> THEN <<>> ELSE <<0, Head(bs)>> \o WordsOfBytes(Tail(bs))

\* C22: a string literal whose body stands for k bytes advances the first
\* pass's address by k + 1, and in the data section the second pass emits
\* k + 1 words for it: the k bytes and a NUL, each with high byte 0
C22_StringLiteralWords ==
    [][\A body \in Bodies :
          (ReadingLine /\ CurrentLine = StringLine(body)) =>
              /\ status = "first_pass" =>
                     /\ status' = "first_pass"
                     /\ address' = address + Len(EscapedBytes(body)) + 1
              /\ (status = "second_pass" /\ InData(line_idx)) =>
                     /\ status' = "second_pass"
                     /\ out_file' = out_file
                            \o WordsOfBytes(Append(EscapedBytes(body), 0))]_vars

\* the same for the bodies that are not empty
C22_NonEmptyBodies ==
    [][\A body \in Bodies \ {<<>>} :
          (ReadingLine /\ CurrentLine = StringLine(body)) =>
              /\ status = "first_pass" =>
                     /\ status' = "first_pass"
                     /\ address' = address + Len(EscapedBytes(body)) + 1
              /\ (status = "second_pass" /\ InData(line_idx)) =>
                     /\ status' = "second_pass"
                     /\ out_file' = out_file
                            \o WordsOfBytes(Append(EscapedBytes(body), 0))]_vars

\* the two bytes the second pass emits for an instruction line
InstructionBytes(instr, idx) == code_line(parse_line(instr, idx), idx).val

\* the line `instr // text` is handled like the line `instr`
HandledLike(instr, text) ==
    (ReadingLine /\ CurrentLine = Commented(instr, text)) =>
        /\ status = "first_pass" =>
               /\ status' = "first_pass"
               /\ address' = address + 1
        /\ (status = "second_pass" /\ InCode(line_idx)) =>
               /\ status' = "second_pass"
               /\ out_file' = out_file \o InstructionBytes(instr, line_idx)

\* C23: an instruction line followed by an inline comment is handled in
\* both passes like the instruction without the comment, whatever the
\* comment's text is: the first pass advances the address by 1 and the
\* second pass emits the same two bytes
C23_CommentIgnored ==
    [][\A instr \in CommentedInstructions, text \in CommentTexts :
          HandledLike(instr, text)]_vars

\* the same for the comments without a colon
C23_CommentsWithoutColon ==
    [][\A instr \in CommentedInstructions, text \in CommentTexts :
          (\A i \in 1..Len(text) : text[i] # ":") => HandledLike(instr, text)]_vars

MovR1R0 == <<"m", "o", "v", " ", "r", "1", " ", "r", "0">>

AddR2R0R1 == <<"a", "d", "d", " ", "r", "2", " ", "r", "0", " ", "r", "1">>

\* the second pass reads the line l inside the code section
AssemblingLine(l) ==
    status = "second_pass" /\ line_idx < Len(source) /\ InCode(line_idx) /\ CurrentLine = l

\* the emulator is about to execute the word w
Executing(w) ==
    status = "running" /\ regs.pc \in DOMAIN mem /\ fetch(regs.pc, mem) = w

\* C28: the assembler encodes mov r1 r0 (opcode 1 at bit 11, rd = 1 at bit
\* 8, rs = 0 at bit 5) as the bytes 09 00, and executing that word sets
\* gp[1] to gp[0]
C28_MovRegisterForm ==
    [][/\ AssemblingLine(MovR1R0) =>
              status' = "second_pass" /\ out_file' = out_file \o <<9, 0>>
       /\ Executing(9 * 256) =>
              status' = "running" /\ regs'.gp[1] = regs.gp[0]]_vars

\* the statement with the bytes 0B 00
C28_BytesZeroB ==
    [][/\ AssemblingLine(MovR1R0) =>
              status' = "second_pass" /\ out_file' = out_file \o <<11, 0>>
       /\ Executing(11 * 256) =>
              status' = "running" /\ regs'.gp[1] = regs.gp[0]]_vars

\* the example program was assembled and run: r1 holds the 5 moved from r0
C28_MovedFive ==
    /\ status = "halted"
    /\ source = ExampleSource(5)
    /\ SubSeq(out_file, 3, 4) = <<9, 0>>
    /\ regs.gp[1] = 5

FlagsClear(r) ==
    ~read_flag(r, ZR) /\ ~read_flag(r, NG) /\ ~read_flag(r, OV) /\ ~read_flag(r, CA)

LoopImage == <<0, 0, 136, 0, 224, 0>>

LoopRuns == source = LoopSource /\ status = "running"

\* C30: assembling the five-line source .section code, start:, mov r0 #0,
\* jmp start, halt yields the symbol table {start: 0} and the bytes
\* 00 00 88 00 E0 00, and emulating that image from pc = 0 never reaches
\* the halt at address 2: pc alternates between 0 and 1 forever
C30_LoopsForever ==
    /\ []((source = LoopSource /\ status = "done") =>
              /\ symbols.labels = (<<"s", "t", "a", "r", "t">> :> 0)
              /\ out_file = LoopImage)
    /\ [](source = LoopSource =>
              /\ status \notin {"halted", "panicked", "failed_first", "failed_second"}
              /\ status = "running" => regs.pc \in {0, 1})
    /\ [][LoopRuns => (status' = "running" /\ regs'.pc = 1 - regs.pc)]_vars
    /\ LoopRuns ~> (LoopRuns /\ regs.pc = 0)
    /\ LoopRuns ~> (LoopRuns /\ regs.pc = 1)

\* the loop has come round: the jump has been executed and pc is 0 again
C30_BackAtStart ==
    /\ LoopRuns
    /\ mem = load_program(LoopImage)
    /\ regs.pc = 0
    /\ regs.ir = 136 * 256

\* the second call of parse_symbols has returned
SecondRunOver == first_run # <<>> /\ status \in {"first_pass_ok", "failed_first"}

C31_TwiceSameError ==
    /\ SecondRunOver
    /\ ~Returned.ok
    /\ bytes.kind = "LabelMultiple"

\* the instruction line of a long source: a T3 mnemonic and the label big
NamesBigLabel ==
    /\ status = "second_pass"
    /\ line_idx < Len(source)
    /\ InCode(line_idx)
    /\ IsKind(line_idx, "Instruction")
    /\ ContentAt(line_idx).val.m \in LongMnemonics
    /\ trim_comments(ContentAt(line_idx).val.args) = <<BigLabel>>

(* C32: every address stored in the symbol table by a successful first     *)
(* pass lies in 0..0x7FF, and the word the second pass emits for an        *)
(* instruction that names a label has the mnemonic's opcode in its top 5   *)
(* bits, for sources of any length.                                        *)
C32_LabelsFitElevenBits ==
    [][/\ status' = "first_pass_ok" =>
              \A l \in DOMAIN symbols'.labels : symbols'.labels[l] \in 0..2047
       /\ (NamesBigLabel /\ status' = "second_pass") =>
              /\ Len(out_file') = Len(out_file) + 2
              /\ TopBits(out_file'[Len(out_file) + 1] * 256
                         + out_file'[Len(out_file) + 2])
                     = DeclaredOpcode(ContentAt(line_idx).val)]_vars

\* the address ldr and strr are specified to use: the contents of the
\* address register plus the offset field
IndirectAddress ==
    regs.gp[extract_bits(Word, REG_ADDR_SIZE, REG_POS1_ROFFSET)]
        + extract_bits(Word, MEM_OFFSET_SIZE, MEM_OFFSET_ROFFSET)

\* the address register of the fetched word holds something else than its
\* own index, and the addressed word is in RAM
AddressRegisterSet ==
    /\ regs.gp[extract_bits(Word, REG_ADDR_SIZE, REG_POS1_ROFFSET)]
           # extract_bits(Word, REG_ADDR_SIZE, REG_POS1_ROFFSET)
    /\ IndirectAddress \in DOMAIN mem

(* C33: ldr loads gp[rd] = mem[gp[radr] + off] and strr stores             *)
(* mem[gp[radr] + off] = gp[rs]: the address depends on the contents of    *)
(* the address register, not on its index.                                 *)
C33_RegisterIndirect ==
    [][/\ (Decoded(LoadRg) /\ IndirectAddress \in DOMAIN mem) =>
              /\ regs'.gp[RegField(Word, 0)] = AsI16(mem[IndirectAddress])
              /\ mem' = mem
       /\ (Decoded(StrRg) /\ IndirectAddress \in DOMAIN mem) =>
              /\ mem' = [mem EXCEPT ![IndirectAddress] =
                                        AsU16(regs.gp[RegField(Word, 0)])]
              /\ regs'.gp = regs.gp]_vars

\* what the instructions do: the address is the index of the address
\* register plus the offset
C33_IndexPlusOffset ==
    [][/\ (Decoded(LoadRg) /\ AddressRegisterSet) =>
              regs'.gp[RegField(Word, 0)] =
                  AsI16(mem[extract_bits(Word, REG_ADDR_SIZE, REG_POS1_ROFFSET)
                            + extract_bits(Word, MEM_OFFSET_SIZE, MEM_OFFSET_ROFFSET)])
       /\ (Decoded(StrRg) /\ AddressRegisterSet) =>
              mem' = [mem EXCEPT ![extract_bits(Word, REG_ADDR_SIZE, REG_POS1_ROFFSET)
                                   + extract_bits(Word, MEM_OFFSET_SIZE, MEM_OFFSET_ROFFSET)]
                                       = AsU16(regs.gp[RegField(Word, 0)])]]_vars

\* the instruction executed last was the cmp of two registers in front of
\* the word about to be fetched
JustComparedRg ==
    /\ status = "running"
    /\ regs.pc \in DOMAIN mem
    /\ (regs.pc - 1) \in DOMAIN mem
    /\ mem[regs.pc - 1] = regs.ir
    /\ decode(regs.ir) = CmpRg

\* the two values that cmp compared
ComparedA == regs.gp[RegField(regs.ir, 0)]

ComparedB == regs.gp[RegField(regs.ir, 1)]

\* the branch about to be executed assigns its label to pc
BranchTaken == regs'.pc = LabelField(Word) /\ LabelField(Word) # regs.pc

(* C36: immediately after cmp rA rB (register form) on any pair of signed  *)
(* 16-bit values and any prior flag state, including the pairs whose       *)
(* subtraction overflows, blt is taken exactly when gp[rA] < gp[rB] and    *)
(* bgt exactly when gp[rA] > gp[rB].                                       *)
C36_SignedCompare ==
    [][JustComparedRg =>
          /\ Decoded(Blt) => (BranchTaken <=> ComparedA < ComparedB)
          /\ Decoded(Bgt) => (BranchTaken <=> ComparedA > ComparedB)]_vars

\* what holds: when the signed difference is in range and not zero, blt and
\* bgt are taken as specified
C36_SignedCompareInRange ==
    [][(JustComparedRg /\ InI16(ComparedA - ComparedB) /\ ComparedA # ComparedB) =>
          /\ Decoded(Blt) => (BranchTaken <=> ComparedA < ComparedB)
          /\ Decoded(Bgt) => (BranchTaken <=> ComparedA > ComparedB)]_vars

(* C37: immediately after cmp rA rB, bltu is taken exactly when gp[rA] <   *)
(* gp[rB] as unsigned 16-bit values, and bgtu exactly when gp[rA] > gp[rB] *)
(* as unsigned 16-bit values.                                              *)
C37_UnsignedCompare ==
    [][JustComparedRg =>
          /\ Decoded(Bltu) =>
                 (BranchTaken <=> AsU16(ComparedA) < AsU16(ComparedB))
          /\ Decoded(Bgtu) =>
                 (BranchTaken <=> AsU16(ComparedA) > AsU16(ComparedB))]_vars

\* what holds: when both values have the same sign and the difference is in
\* range, bltu and bgtu are taken as specified
C37_UnsignedCompareSameSign ==
    [][(JustComparedRg /\ ((ComparedA < 0) <=> (ComparedB < 0))) =>
          /\ Decoded(Bltu) =>
                 (BranchTaken <=> AsU16(ComparedA) < AsU16(ComparedB))
          /\ Decoded(Bgtu) =>
                 (BranchTaken <=> AsU16(ComparedA) > AsU16(ComparedB))]_vars

\* the emulator runs the image assembled from the program that moves and
\* compares the immediate v
RunningImmediate(v) == status = "running" /\ source = ImmediateSource(v)

(* C38: for every immediate v in -128..127, executing the word the         *)
(* assembler emits for mov rd #v leaves gp[rd] = v as a signed 16-bit      *)
(* value, and cmp rA #v compares gp[rA] against v.                         *)
C38_SignedImmediates ==
    [][\A v \in ImmediateVals :
          RunningImmediate(v) =>
              /\ regs.pc = 0 => regs'.gp[1] = v
              /\ regs.pc \in {1, 2} =>
                     regs'.flags =
                         FlagsOfSub(regs, regs.gp[RegField(Word, 0)], v)]_vars

\* what holds: the same for the immediates 0..127
C38_NonNegativeImmediates ==
    [][\A v \in ImmediateVals :
          (RunningImmediate(v) /\ v >= 0) =>
              /\ regs.pc = 0 => regs'.gp[1] = v
              /\ regs.pc \in {1, 2} =>
                     regs'.flags =
                         FlagsOfSub(regs, regs.gp[RegField(Word, 0)], v)]_vars

\* a push has just run without a fault and the word behind it is the pop
\* with the same register fields and the same count; none of the listed
\* registers is sp
PushedThenPop ==
    /\ Decoded(Pop)
    /\ (regs.pc - 1) \in DOMAIN mem
    /\ mem[regs.pc - 1] = regs.ir
    /\ decode(regs.ir) = Push
    /\ Word - (Pop * 2048) = regs.ir - (Push * 2048)
    /\ StackNum(Word) \in 1..3
    /\ \A i \in 0..(StackNum(Word) - 1) : RegField(Word, i) # SP_PTR

(* C39: for any word with a register count k in 1..3 whose listed          *)
(* registers do not include sp, push and then immediately pop with the     *)
(* same register fields and count restores sp and leaves every listed      *)
(* register holding the value it had before the push, provided sp-k..sp-1  *)
(* are valid RAM indices.  (push writes no listed register, so the values  *)
(* before the push are those before the pop, and sp was higher by k.)      *)
C39_PushPopRoundTrip ==
    [][PushedThenPop =>
          /\ status' = "running"
          /\ regs'.gp[SP_PTR] = regs.gp[SP_PTR] + StackNum(Word)
          /\ \A i \in 0..(StackNum(Word) - 1) :
                 regs'.gp[RegField(Word, i)] = regs.gp[RegField(Word, i)]]_vars

\* what holds: sp is restored and the listed registers hold the pushed
\* values in the reverse order
C39_PopReversesOrder ==
    [][PushedThenPop =>
          /\ status' = "running"
          /\ regs'.gp[SP_PTR] = regs.gp[SP_PTR] + StackNum(Word)
          /\ \A i \in 0..(StackNum(Word) - 1) :
                 regs'.gp[RegField(Word, i)] =
                     regs.gp[RegField(Word, StackNum(Word) - 1 - i)]]_vars

\* the opcodes that neither branch nor halt
StraightOpcodes ==
    {MovIm, MovRg, Load, LoadRg, Store, StrRg, Push, Pop, AddIm, AddRg, SubIm,
     SubRg, ShftL, ShftR, And, Or, Not, CmpIm, CmpRg}

\* the longest straight-line program looked at
MaxStraight == 24

\* the words at 0..n-1 are non-branch, non-halt instructions and the word at
\* n is halt
StraightTo(n) ==
    /\ n \in DOMAIN mem
    /\ decode(mem[n]) = Halt
    /\ \A i \in 0..(n - 1) : decode(mem[i]) \in StraightOpcodes

\* the image is a straight-line program of at most MaxStraight instructions
Straight == \E n \in 0..MaxStraight : StraightTo(n)

(* C40: for any image whose words at 0..n-1 are non-branch, non-halt       *)
(* instructions that cause no memory fault and do not overwrite the        *)
(* addresses 0..n, followed by halt at n, emulation from pc = 0 executes   *)
(* each of them exactly once in address order (every cycle moves pc to the *)
(* next address, and the only way to stop without a fault is the halt at   *)
(* pc = n) and terminates.  A run that faults or overwrites its            *)
(* instructions with a branch or a halt is outside the claim.              *)
C40_StraightLineTerminates ==
    /\ [][\A n \in 0..MaxStraight :
             (status = "running" /\ StraightTo(n) /\ regs.pc <= n) =>
                 \/ status' = "panicked"
                 \/ regs.pc < n /\ status' = "running" /\ regs'.pc = regs.pc + 1
                 \/ regs.pc = n /\ status' = "halted" /\ regs'.pc = n]_vars
    /\ (status = "running" /\ regs.pc = 0 /\ Straight)
           ~> (status # "running" \/ ~Straight)

\* the straight-line program of twenty instructions was assembled and has
\* run to its halt
C40_HaltedAtTwenty ==
    /\ status = "halted"
    /\ source = StraightSource
    /\ StraightTo(20)
    /\ regs.pc = 20

\* the number of 16-bit words the second pass writes for the lines in front
\* of the line at index i: one per instruction line of the code range, and
\* the words of each data line of the data range
WordsWrittenBefore(i) ==
    Cardinality(InstructionLines({j \in LineIndexes : InCode(j) /\ j < i}))
    + DataWords({j \in LineIndexes : ~InCode(j) /\ InData(j) /\ j < i})

(* C34: after both passes succeed, for every label, symbols[label] equals  *)
(* the number of 16-bit words the second pass writes before it reaches the *)
(* label's line (the RAM index of the first word emitted after the label), *)
(* for every arrangement of lines, lines before the first section          *)
(* declaration and repeated section declarations included.                 *)
C34_LabelIsWordIndex ==
    status = "done" =>
        /\ Len(out_file) = 2 * WordsWrittenBefore(Len(source))
        /\ \A i \in LineIndexes :
               IsKind(i, "Label") =>
                   symbols.labels[LabelAt(i)] = WordsWrittenBefore(i)

\* what holds: the same for the sources whose first line declares a section
\* and that declare no section twice
C34_SectionDeclaredFirst ==
    (/\ status = "done"
     /\ DeclaresSection(source[1])
     /\ Cardinality(CodeDecls) <= 1
     /\ Cardinality(DataDecls) <= 1) =>
        \A i \in LineIndexes :
            IsKind(i, "Label") =>
                symbols.labels[LabelAt(i)] = WordsWrittenBefore(i)

\* the index of the first section declaration of the source
FirstDecl ==
    CHOOSE i \in CodeDecls \cup DataDecls :
        \A j \in CodeDecls \cup DataDecls : i <= j

(* C35: whenever parse_symbols returns Ok, for any number and order of     *)
(* .section declarations: code_range() is defined with start <= end,       *)
(* data_range() is undefined or has start <= end, the two ranges are       *)
(* disjoint, and together they cover every line from the first section     *)
(* declaration to the end of the file.                                     *)
C35_RangesWellFormed ==
    FirstPassOk =>
        /\ code_range(symbols) # None
        /\ code_range(symbols)[1][1] <= code_range(symbols)[1][2]
        /\ data_range(symbols) # None =>
               data_range(symbols)[1][1] <= data_range(symbols)[1][2]
        /\ \A i \in LineIndexes : ~(InCode(i) /\ InData(i))
        /\ \A i \in LineIndexes : i >= FirstDecl => (InCode(i) \/ InData(i))

\* what holds: the same for the sources that declare no section twice
C35_DeclaredOnce ==
    (FirstPassOk /\ Cardinality(CodeDecls) <= 1 /\ Cardinality(DataDecls) <= 1) =>
        /\ code_range(symbols) # None
        /\ code_range(symbols)[1][1] <= code_range(symbols)[1][2]
        /\ data_range(symbols) # None =>
               data_range(symbols)[1][1] <= data_range(symbols)[1][2]
        /\ \A i \in LineIndexes : ~(InCode(i) /\ InData(i))
        /\ \A i \in LineIndexes : i >= FirstDecl => (InCode(i) \/ InData(i))

====
